---- MODULE Spec2Model ----
(***************************************************************************)
(* VPS Security Monitor: the check / remediation / rollback engine.        *)
(*                                                                         *)
(* Spec        one remediation run: a RollbackManager and the guarded-     *)
(*             apply handlers (firewall, permissions, sshd configuration)  *)
(*             executed command by command.                                *)
(*                                                                         *)
(* SpecJournal the life of one session: Change Records are appended with   *)
(*             their mutations, the process exits or is killed, the        *)
(*             session is rolled back by later invocations.                *)
(*                                                                         *)
(* SpecReplay  the sessions a scan run writes (firewall and permission     *)
(*             records) and their replay by rollback_session.              *)
(*                                                                         *)
(* SpecScan    one scan of main: run_checks, process_remediation with the  *)
(*             handlers seen by how they end, the summary and sys.exit.    *)
(*                                                                         *)
(* External commands are the environment: every command returns an exit    *)
(* code drawn from RC (0, a non-zero exit, or -1 for the timeout of        *)
(* BaseRemediation._execute_command); a command takes effect on the system *)
(* exactly when it returns 0.                                              *)
(***************************************************************************)
EXTENDS Integers, Sequences, FiniteSets, TLC

\* ------------------------------------------------------------------ bounds
\* longest list of files handed to the permission fix
MaxFiles == 2
\* most Change Records appended to one session in SpecJournal
MaxChanges == 3
\* most runs (RollbackManager instances, session identifiers) in SpecRetention
MaxSessions == 4

\* ------------------------------------------------------- program constants
\* the management port of "ufw allow 22/tcp"
SSH_PORT == 22

\* ---------------------------------------------------------------- domains
\* exit codes seen by the handlers: success, non-zero exit, timeout
RC == {0, 1, -1}

\* firewall.allowed_ports of the configuration object
AllowedPortConfigs == {<<>>, <<22, 443>>, <<443, 8080>>}

\* a string that is not there (Python None)
None == "None"
\* a mode string, a file name or an identifier that is not there
Absent == <<>>
\* a session file: absent, opened for writing and never completely written
\* (truncated, no JSON document), or holding the records of the last dump
NoFile == [state |-> "none", records |-> <<>>]
Partial == [state |-> "partial", records |-> <<>>]
Saved(recs) == [state |-> "ok", records |-> recs]

\* the session identifier of the run (RollbackManager.__init__)
FirstSession == 1
\* max_backups of RollbackManager.__init__ when the caller gives none
DEFAULT_MAX_BACKUPS == 50

\* ssh.config_path
CONFIG_PATH == "/etc/ssh/sshd_config"
\* two .env files of two projects: the same base name in two directories
EnvPaths == {"/srv/a/.env", "/srv/b/.env"}
Paths == EnvPaths \cup {CONFIG_PATH}

\* os.path.basename
Basename(path) == IF path = CONFIG_PATH THEN "sshd_config" ELSE ".env"

\* the findings the dispatcher can remediate, in ALL_CHECKS order: stage 1 the
\* finding of the firewall check, stage 2 that of the file permission check;
\* stage 3 is the end of the run. SSHRemediation is not in remediation_map, so
\* it never shares a run with the other handlers: stage 0 is its own run.
SshStage == 0
FirewallStage == 1
PermissionStage == 2
LastStage == 3

VARIABLES
    \* ---- the system the handlers mutate
    ufwActive,      \* filter status reported by "ufw status"
    ufwRules,       \* ports with an allow rule
    fs,             \* files: path -> [exists, mode, content]
    \* ---- RollbackManager
    session_id,     \* self.session_id
    changes,        \* self.changes, the Change Records appended in this run
    sessions,       \* the session files on disk: session id -> content
    artifacts,      \* the backup artifacts on disk: name -> content
    save_ok,        \* history: the last _save wrote the session file
    \* ---- the dispatcher and the handler in execution
    stage,          \* which finding the dispatcher has reached
    pc,             \* position in the handler
    handler,        \* the fix identifier being executed
    ports,          \* the ports the current loop has still to visit
    files,          \* the files the current loop has still to visit
    actions_taken,  \* actions_taken (fixed_settings in the SSH handler)
    errors,         \* errors
    rules_before,   \* rules_before
    original_content, \* original_content of the SSH handler
    new_content,    \* new_content of the SSH handler
    backup_id,      \* backup_id of the SSH handler
    outcome,        \* what execute() returned (or that it raised)
    \* ---- history of the execution
    cmdLog,         \* commands issued in this execution, with exit codes
    mutLog,         \* system mutations of this execution and their journal state
    active_before,  \* filter status when the execution started
    content_before, \* configuration text when the execution started
    journal_mark,   \* len(self.changes) when the execution started
    validated,      \* the text "sshd -t" accepted in this execution
    restarts,       \* the restart commands issued and the text then on disk
    \* ---- the life of a session (SpecJournal)
    run_over,       \* the process that wrote the session has exited
    crashed,        \* ... killed while _save was writing the session file
    rb,             \* what the last rollback_session returned
    fs0,            \* history: the files when the session started
    durable,        \* history: the records of the last complete dump
    interfered,     \* history: a recorded file was removed behind the journal
    lastOp,         \* history: the last operation on the journal
    \* ---- one scan of vps_security.main (SpecScan)
    config,         \* args.dry_run and the 'remediation' section of the config
    scan_pc,        \* position in main
    check_ix,       \* position of "for check_class in ALL_CHECKS"
    results,        \* results
    rem_ix,         \* position of "for result in results"
    auto_fixed,     \* auto_fixed
    alerts,         \* alerts
    exit_status,    \* the argument of sys.exit
    ran,            \* history: what each check did (returned or raised)
    handled,        \* history: the findings handed to a handler, and its end
    running,        \* history: the findings whose handler is executing
    notified,       \* what became of the Slack summary of the scan
    \* ---- the configuration object of the run
    allowed_ports,  \* firewall.allowed_ports
    max_backups,    \* self.max_backups of the RollbackManager
    cleanup,        \* history: what the last _cleanup_old_backups found and did
    cli             \* the last journal command of main: its result and sys.exit

sysVars == <<ufwActive, ufwRules, fs>>
\* what no handler changes: the identity of the run, the life of its session
lifeVars == <<run_over, crashed, rb, fs0, durable, interfered, lastOp>>
scanVars == <<config, scan_pc, check_ix, results, rem_ix, auto_fixed, alerts,
              exit_status, ran, handled, running, notified>>
retentionVars == <<max_backups, cleanup, cli>>
runVars == <<session_id, lifeVars, scanVars, allowed_ports, retentionVars>>
journalVars == <<runVars, changes, sessions, artifacts, save_ok>>
localVars == <<ports, files, actions_taken, errors, rules_before,
               original_content, new_content, backup_id>>
histVars == <<cmdLog, mutLog, active_before, content_before, journal_mark,
              validated, restarts>>

execVars == <<stage, pc, handler, localVars, outcome, histVars, allowed_ports,
              retentionVars>>
vars == <<sysVars, journalVars, execVars>>

\* ------------------------------------------------------------ the journal
\* one Change Record; fields a record type does not carry are None / Absent
ChangeRecord(type, path, original_mode, new_mode, backup_file, action, command) ==
    [type |-> type, path |-> path, original_mode |-> original_mode,
     new_mode |-> new_mode, backup_file |-> backup_file, action |-> action,
     command |-> command]

\* how one _save ends: the file is rewritten, open() fails, or the write
\* fails after open() truncated the file; the exception is logged, not raised
SaveResults == {"ok", "open_fails", "write_fails"}

\* content of the session file after _save
SaveFile(old, recs, how) ==
    CASE how = "ok" -> Saved(recs)
      [] how = "open_fails" -> old
      [] OTHER -> Partial

\* the records a session file holds
FileRecords(content) == content.records

\* name of the artifact of record_ufw_change
UfwBackupName(sid) == <<"ufw_backup", sid, "txt">>

\* name of the artifact of a saved file content
FileBackupName(sid, path) == <<"backup", sid, Basename(path)>>

Put(f, k, v) == [x \in (DOMAIN f) \cup {k} |-> IF x = k THEN v ELSE f[x]]

\* self.changes.append(change); self._save()
AppendAndSaveBeforeAppend(rec, how) ==
    /\ changes' = Append(changes, rec)
    /\ sessions' = Put(sessions, session_id,
                       SaveFile(sessions[session_id], changes, how))
    /\ save_ok' = (how = "ok")
AppendAndSave(rec, how) ==
    /\ changes' = Append(changes, rec)
    /\ sessions' = Put(sessions, session_id,
                       SaveFile(sessions[session_id], Append(changes, rec), how))
    /\ save_ok' = (how = "ok")

\* record_ufw_change(action, rules_before), when the backup file is written
record_ufw_change(action, listing, how) ==
    /\ artifacts' = Put(artifacts, UfwBackupName(session_id),
                        [content |-> listing, mode |-> 0])
    /\ AppendAndSave(ChangeRecord("ufw", None, Absent, Absent,
                                  UfwBackupName(session_id), action, None), how)

\* record_command(command, description)
record_command(command, how) ==
    /\ AppendAndSave(ChangeRecord("command", None, Absent, Absent, Absent, None,
                                  command), how)
    /\ UNCHANGED artifacts

\* record_permission_change(filepath, original_mode, new_mode)
record_permission_change(filepath, original_mode, new_mode, how) ==
    /\ AppendAndSave(ChangeRecord("permission", filepath, original_mode, new_mode,
                                  Absent, None, None), how)
    /\ UNCHANGED artifacts

\* record_file_change(filepath) without a backup content: no backup file
record_file_change_without_content(filepath, backup_content, umask_mode, how) ==
    /\ UNCHANGED artifacts
    /\ AppendAndSave(ChangeRecord("file", filepath, Absent, Absent, Absent, None, None), how)

\* record_file_change(filepath, backup_content) with a backup content, when
\* the backup file is written; umask_mode is the mode a new file is given
record_file_change(filepath, backup_content, umask_mode, how) ==
    /\ artifacts' = Put(artifacts, FileBackupName(session_id, filepath),
                        [content |-> backup_content,
                         mode |-> IF FileBackupName(session_id, filepath) \in DOMAIN artifacts
                                  THEN artifacts[FileBackupName(session_id, filepath)].mode
                                  ELSE umask_mode])
    /\ AppendAndSave(ChangeRecord("file", filepath, Absent, Absent,
                                  FileBackupName(session_id, filepath), None, None), how)

\* ------------------------------------------------------------- outcomes
NoOutcome == [kind |-> "none", success |-> FALSE, action |-> None,
              details |-> <<>>, rollback_id |-> Absent, error |-> None]

\* BaseRemediation._success
Success(action, details, rollback_id) ==
    [kind |-> "returned", success |-> TRUE, action |-> action,
     details |-> details, rollback_id |-> rollback_id, error |-> None]

\* BaseRemediation._failure
Failure(action, error, details) ==
    [kind |-> "returned", success |-> FALSE, action |-> action,
     details |-> details, rollback_id |-> Absent, error |-> error]

\* execute() left by an exception
Raised(error) ==
    [kind |-> "raised", success |-> FALSE, action |-> None,
     details |-> <<>>, rollback_id |-> Absent, error |-> error]

\* one detail line
Detail(text, arg) == [text |-> text, arg |-> arg]

\* ------------------------------------------------------- external commands
Cmd(cmd, port, rc) == [cmd |-> cmd, port |-> port, rc |-> rc]

\* stdout of "ufw status numbered": the listing, empty unless the command ran
Listing(rc) == IF rc = 0 THEN [active |-> ufwActive, rules |-> ufwRules]
               ELSE [active |-> FALSE, rules |-> {}]

\* records i of recs appended by this execution for (type, path)
Journaled(recs, type, path) ==
    \E i \in DOMAIN recs :
        i > journal_mark /\ recs[i].type = type /\ recs[i].path = path

\* a mutation of the system, with the state of the journal when it happened:
\* inMemory, its Change Record is in mem (self.changes);
\* onDisk, it is in the session file disk;
\* saved, the last _save before the mutation wrote the session file
Mutation(kind, subject, type, path, mem, disk) ==
    [kind |-> kind, subject |-> subject,
     inMemory |-> Journaled(mem, type, path),
     onDisk |-> Journaled(FileRecords(disk), type, path),
     saved |-> save_ok]

\* a handler starts: its locals and the history of the execution
Begin(name) ==
    /\ handler' = name
    /\ actions_taken' = <<>> /\ errors' = <<>>
    /\ mutLog' = {}
    /\ active_before' = ufwActive
    /\ content_before' = fs[CONFIG_PATH].content
    /\ journal_mark' = Len(changes)
    /\ validated' = <<>>
    /\ restarts' = <<>>

\* ------------------------------------------- FirewallRemediation._enable_ufw
ABORTED == Detail("ABORTED: Cannot enable UFW without SSH access guaranteed", "")

\* the test "returncode != 0" after "ufw allow 22/tcp"
AllowSshFailedOnExitOnly(rc) == rc > 0
AllowSshFailed(rc) == rc # 0

\* returncode, rules_before, _ = self._execute_command("ufw status numbered")
EnableStatusNumbered ==
    /\ pc = "idle" /\ stage = FirewallStage
    /\ Begin("enable_ufw")
    /\ \E rc \in RC :
        /\ rules_before' = Listing(rc)
        /\ cmdLog' = <<Cmd("ufw status numbered", 0, rc)>>
    /\ pc' = "enable_record"
    /\ outcome' = NoOutcome
    /\ UNCHANGED <<sysVars, journalVars, stage, ports, files, original_content,
                   new_content, backup_id>>

\* self.rollback_manager.record_ufw_change("enable_ufw", rules_before)
EnableRecordUfwChange ==
    /\ pc = "enable_record"
    /\ \/ \E how \in SaveResults :
            /\ record_ufw_change("enable_ufw", rules_before, how)
            /\ pc' = "enable_allow_ssh"
            /\ UNCHANGED outcome
       \/ \* the backup file cannot be written: open() raises
          /\ outcome' = Raised("OSError")
          /\ pc' = "done"
          /\ UNCHANGED <<changes, sessions, artifacts, save_ok>>
    /\ UNCHANGED <<sysVars, runVars, stage, handler, localVars, histVars>>

\* "ufw allow 22/tcp", and the abort when it fails
EnableAllowSsh ==
    /\ pc = "enable_allow_ssh"
    /\ \E rc \in RC :
        /\ cmdLog' = Append(cmdLog, Cmd("ufw allow", SSH_PORT, rc))
        /\ mutLog' = mutLog \cup {Mutation("ufw allow", ToString(SSH_PORT), "ufw",
                                           None, changes, sessions[session_id])}
        /\ ufwRules' = IF rc = 0 THEN ufwRules \cup {SSH_PORT} ELSE ufwRules
        /\ IF AllowSshFailed(rc)
           THEN /\ outcome' = Failure("Enable UFW", "Failed to allow SSH port 22",
                                      <<ABORTED>>)
                /\ pc' = "done"
                /\ UNCHANGED <<actions_taken, ports>>
           ELSE /\ actions_taken' = Append(actions_taken,
                                           Detail("Allowed SSH port", ToString(SSH_PORT)))
                /\ ports' = allowed_ports
                /\ pc' = "enable_ports"
                /\ UNCHANGED outcome
    /\ UNCHANGED <<ufwActive, fs, journalVars, stage, handler, files, errors,
                   rules_before, original_content, new_content, backup_id,
                   active_before, content_before, journal_mark, validated, restarts>>

\* one iteration of "for port in allowed_ports"
EnableAllowPortAborting ==
    /\ pc = "enable_ports" /\ ports # <<>>
    /\ \E rc \in RC :
        /\ cmdLog' = Append(cmdLog, Cmd("ufw allow", Head(ports), rc))
        /\ IF rc = 0
           THEN /\ ufwRules' = ufwRules \cup {Head(ports)}
                /\ actions_taken' = Append(actions_taken,
                                           Detail("Allowed port", ToString(Head(ports))))
                /\ ports' = Tail(ports)
                /\ UNCHANGED <<pc, outcome>>
           ELSE /\ outcome' = Failure("Enable UFW", "Failed to allow port", actions_taken)
                /\ pc' = "done"
                /\ UNCHANGED <<ufwRules, actions_taken, ports>>
    /\ UNCHANGED <<ufwActive, fs, journalVars, stage, handler, files, errors,
                   rules_before, original_content, new_content, backup_id, mutLog,
                   active_before, content_before, journal_mark, validated, restarts>>
EnableAllowPort ==
    /\ pc = "enable_ports" /\ ports # <<>>
    /\ LET port == Head(ports) IN
        IF port = SSH_PORT
        THEN UNCHANGED <<ufwRules, actions_taken, cmdLog, mutLog>>
        ELSE \E rc \in RC :
            /\ cmdLog' = Append(cmdLog, Cmd("ufw allow", port, rc))
            /\ mutLog' = mutLog \cup {Mutation("ufw allow", ToString(port), "ufw",
                                               None, changes, sessions[session_id])}
            /\ IF rc = 0
               THEN /\ ufwRules' = ufwRules \cup {port}
                    /\ actions_taken' = Append(actions_taken,
                                               Detail("Allowed port", ToString(port)))
               ELSE UNCHANGED <<ufwRules, actions_taken>>
    /\ ports' = Tail(ports)
    /\ UNCHANGED <<ufwActive, fs, journalVars, stage, pc, handler, files, errors,
                   rules_before, original_content, new_content, backup_id, outcome,
                   active_before, content_before, journal_mark, validated, restarts>>

\* "ufw --force enable"
EnableActivateIgnoringExit ==
    /\ pc = "enable_ports" /\ ports = <<>>
    /\ \E rc \in RC :
        /\ cmdLog' = Append(cmdLog, Cmd("ufw --force enable", 0, rc))
        /\ ufwActive' = (ufwActive \/ rc = 0)
    /\ actions_taken' = Append(actions_taken, Detail("Enabled UFW firewall", ""))
    /\ pc' = "enable_verify"
    /\ UNCHANGED <<ufwRules, fs, journalVars, stage, handler, ports, files, errors,
                   rules_before, original_content, new_content, backup_id, mutLog,
                   active_before, content_before, journal_mark, validated, restarts,
                   outcome>>
EnableActivate ==
    /\ pc = "enable_ports" /\ ports = <<>>
    /\ \E rc \in RC :
        /\ cmdLog' = Append(cmdLog, Cmd("ufw --force enable", 0, rc))
        /\ mutLog' = mutLog \cup {Mutation("ufw --force enable", "", "ufw",
                                           None, changes, sessions[session_id])}
        /\ IF rc # 0
           THEN /\ outcome' = Failure("Enable UFW", "Failed to enable UFW", actions_taken)
                /\ pc' = "done"
                /\ UNCHANGED <<ufwActive, actions_taken>>
           ELSE /\ ufwActive' = TRUE
                /\ actions_taken' = Append(actions_taken, Detail("Enabled UFW firewall", ""))
                /\ pc' = "enable_verify"
                /\ UNCHANGED outcome
    /\ UNCHANGED <<ufwRules, fs, journalVars, stage, handler, ports, files, errors,
                   rules_before, original_content, new_content, backup_id,
                   active_before, content_before, journal_mark, validated, restarts>>

\* "ufw status" and the test "Status: active" in stdout
EnableVerifyIgnoringStatus ==
    /\ pc = "enable_verify"
    /\ \E rc \in RC : cmdLog' = Append(cmdLog, Cmd("ufw status", 0, rc))
    /\ actions_taken' = Append(actions_taken, Detail("Verified UFW is active", ""))
    /\ pc' = "enable_record_command"
    /\ UNCHANGED <<sysVars, journalVars, stage, handler, ports, files, errors,
                   rules_before, original_content, new_content, backup_id,
                   mutLog, active_before, content_before, journal_mark, validated,
                   restarts, outcome>>
EnableVerify ==
    /\ pc = "enable_verify"
    /\ \E rc \in RC :
        /\ cmdLog' = Append(cmdLog, Cmd("ufw status", 0, rc))
        /\ IF ~(rc = 0 /\ ufwActive)
           THEN /\ outcome' = Failure("Enable UFW",
                                      "UFW reports inactive after enable command",
                                      actions_taken)
                /\ pc' = "done"
                /\ UNCHANGED actions_taken
           ELSE /\ actions_taken' = Append(actions_taken, Detail("Verified UFW is active", ""))
                /\ pc' = "enable_record_command"
                /\ UNCHANGED outcome
    /\ UNCHANGED <<sysVars, journalVars, stage, handler, ports, files, errors,
                   rules_before, original_content, new_content, backup_id,
                   mutLog, active_before, content_before, journal_mark, validated,
                   restarts>>

\* record_command("ufw --force enable", ...) and the success Outcome
EnableRecordCommand ==
    /\ pc = "enable_record_command"
    /\ \E how \in SaveResults : record_command("ufw --force enable", how)
    /\ outcome' = Success("Enabled UFW firewall", actions_taken, <<session_id>>)
    /\ pc' = "done"
    /\ UNCHANGED <<sysVars, runVars, stage, handler, localVars, histVars>>

\* -------------------------------------- FirewallRemediation._add_missing_rules
\* raw_data['missing_ports'] of the finding
MissingPortPayloads == {<<>>, <<443>>, <<443, 8080>>, <<8080, 443>>}

\* the empty payload, or "ufw status numbered"
AddRulesBegin ==
    /\ pc = "idle" /\ stage = FirewallStage
    /\ Begin("add_missing_rules")
    /\ \E missing_ports \in MissingPortPayloads :
        /\ ports' = missing_ports
        /\ IF missing_ports = <<>>
           THEN /\ outcome' = Success("Add missing rules",
                                      <<Detail("No missing rules to add", "")>>, Absent)
                /\ pc' = "done"
                /\ cmdLog' = <<>>
                /\ UNCHANGED rules_before
           ELSE /\ \E rc \in RC :
                    /\ rules_before' = Listing(rc)
                    /\ cmdLog' = <<Cmd("ufw status numbered", 0, rc)>>
                /\ pc' = "add_record"
                /\ outcome' = NoOutcome
    /\ UNCHANGED <<sysVars, journalVars, stage, files, original_content,
                   new_content, backup_id>>

\* self.rollback_manager.record_ufw_change("add_missing_rules", rules_before)
AddRulesRecordUfwChange ==
    /\ pc = "add_record"
    /\ \/ \E how \in SaveResults :
            /\ record_ufw_change("add_missing_rules", rules_before, how)
            /\ pc' = "add_ports"
            /\ UNCHANGED outcome
       \/ /\ outcome' = Raised("OSError")
          /\ pc' = "done"
          /\ UNCHANGED <<changes, sessions, artifacts, save_ok>>
    /\ UNCHANGED <<sysVars, runVars, stage, handler, localVars, histVars>>

\* one iteration of "for port in missing_ports"
AddRulesAllowPort ==
    /\ pc = "add_ports" /\ ports # <<>>
    /\ LET port == Head(ports) IN
        \E rc \in RC :
            /\ cmdLog' = Append(cmdLog, Cmd("ufw allow", port, rc))
            /\ mutLog' = mutLog \cup {Mutation("ufw allow", ToString(port), "ufw",
                                               None, changes, sessions[session_id])}
            /\ IF rc = 0
               THEN /\ ufwRules' = ufwRules \cup {port}
                    /\ actions_taken' = Append(actions_taken,
                                               Detail("Allowed port", ToString(port)))
                    /\ \E how \in SaveResults :
                        record_command("ufw allow " \o ToString(port), how)
                    /\ UNCHANGED errors
               ELSE /\ errors' = Append(errors, Detail("Failed to allow port", ToString(port)))
                    /\ UNCHANGED <<ufwRules, actions_taken, changes, sessions, artifacts, save_ok>>
    /\ ports' = Tail(ports)
    /\ UNCHANGED <<ufwActive, fs, runVars, stage, pc, handler, files,
                   rules_before, original_content, new_content, backup_id, outcome,
                   active_before, content_before, journal_mark, validated, restarts>>

\* the Outcome of _add_missing_rules
AddRulesFinish ==
    /\ pc = "add_ports" /\ ports = <<>>
    /\ outcome' = IF errors # <<>>
                  THEN Failure("Add missing rules", "errors", actions_taken)
                  ELSE Success("Added firewall rules", actions_taken, <<session_id>>)
    /\ pc' = "done"
    /\ UNCHANGED <<sysVars, journalVars, stage, handler, localVars, histVars>>

\* ----------------------------------- PermissionRemediation._fix_env_permissions
\* the octal digits of a mode, most significant first
RECURSIVE OctDigits(_)
OctDigits(m) == IF m < 8 THEN <<ToString(m)>>
                ELSE Append(OctDigits(m \div 8), ToString(m % 8))

\* oct(current_mode)[-3:]
ModeStr(m) == LET o == <<"0", "o">> \o OctDigits(m)
              IN SubSeq(o, Len(o) - 2, Len(o))

DigitValue(c) == CASE c = "0" -> 0 [] c = "1" -> 1 [] c = "2" -> 2 [] c = "3" -> 3
                   [] c = "4" -> 4 [] c = "5" -> 5 [] c = "6" -> 6 [] c = "7" -> 7
                   [] OTHER -> -1

\* int(mode_string, 8) of a three-character string; -1 is ValueError
ParseOct(str) ==
    IF str[1] = "0" /\ str[2] = "o"
    THEN DigitValue(str[3])
    ELSE IF \E i \in 1..3 : DigitValue(str[i]) < 0
         THEN -1
         ELSE DigitValue(str[1]) * 64 + DigitValue(str[2]) * 8 + DigitValue(str[3])

\* the target mode: os.chmod(filepath, 0o600), new_mode='600'
TARGET_MODE == 384
TARGET_MODE_STR == <<"6", "0", "0">>

\* raw_data['files'] of the finding
FilePayloads == UNION {[1..n -> EnvPaths] : n \in 0..MaxFiles}

\* "if not files": the empty payload returns at once
PermBegin ==
    /\ pc = "idle" /\ stage = PermissionStage
    /\ Begin("fix_env_permissions")
    /\ cmdLog' = <<>>
    /\ \E payload \in FilePayloads :
        /\ files' = payload
        /\ IF payload = <<>>
           THEN /\ outcome' = Success("Fix .env permissions",
                                      <<Detail("No files to fix", "")>>, Absent)
                /\ pc' = "done"
           ELSE /\ outcome' = NoOutcome
                /\ pc' = "perm_loop"
    /\ UNCHANGED <<sysVars, journalVars, stage, ports, rules_before,
                   original_content, new_content, backup_id>>

\* the loop body if _save raised what it catches: the handler ends at once
PermRecordSaveRaises ==
    /\ pc = "perm_loop" /\ files # <<>>
    /\ LET filepath == Head(files) IN
        IF ~fs[filepath].exists
        THEN /\ errors' = Append(errors, Detail("File not found", filepath))
             /\ files' = Tail(files)
             /\ UNCHANGED <<pc, changes, sessions, artifacts, save_ok, outcome>>
        ELSE /\ \E how \in SaveResults :
                    /\ record_permission_change(filepath, ModeStr(fs[filepath].mode),
                                                TARGET_MODE_STR, how)
                    /\ IF how = "ok"
                       THEN pc' = "perm_chmod" /\ UNCHANGED outcome
                       ELSE pc' = "done" /\ outcome' = Raised("OSError")
             /\ UNCHANGED <<errors, files>>
    /\ UNCHANGED <<sysVars, runVars, stage, handler, ports, actions_taken,
                   rules_before, original_content, new_content, backup_id,
                   histVars>>

\* loop body up to record_permission_change: a missing file is an error
PermRecord ==
    /\ pc = "perm_loop" /\ files # <<>>
    /\ LET filepath == Head(files) IN
        IF ~fs[filepath].exists
        THEN /\ errors' = Append(errors, Detail("File not found", filepath))
             /\ files' = Tail(files)
             /\ UNCHANGED <<pc, changes, sessions, artifacts, save_ok>>
        ELSE /\ \E how \in SaveResults :
                    record_permission_change(filepath, ModeStr(fs[filepath].mode),
                                             TARGET_MODE_STR, how)
             /\ pc' = "perm_chmod"
             /\ UNCHANGED <<errors, files>>
    /\ UNCHANGED <<sysVars, runVars, stage, handler, ports, actions_taken,
                   rules_before, original_content, new_content, backup_id,
                   outcome, histVars>>

\* os.chmod(filepath, 0o600), or PermissionError
PermChmod ==
    /\ pc = "perm_chmod"
    /\ LET filepath == Head(files) IN
        \/ /\ fs' = [fs EXCEPT ![filepath].mode = TARGET_MODE]
           /\ mutLog' = mutLog \cup {Mutation("chmod", filepath, "permission",
                                              filepath, changes, sessions[session_id])}
           /\ actions_taken' = Append(actions_taken, Detail("-> 600", filepath))
           /\ UNCHANGED errors
        \/ /\ errors' = Append(errors, Detail("Permission denied", filepath))
           /\ UNCHANGED <<fs, mutLog, actions_taken>>
    /\ files' = Tail(files)
    /\ pc' = "perm_loop"
    /\ UNCHANGED <<ufwActive, ufwRules, journalVars, stage, handler, ports,
                   rules_before, original_content, new_content, backup_id,
                   outcome, cmdLog, active_before, content_before, journal_mark,
                   validated, restarts>>

\* the Outcome of _fix_env_permissions if any error made it a failure
PermOutcomeFailingOnAnyError(taken, errs, sid) ==
    IF errs # <<>>
    THEN Failure("Fix .env permissions", "errors", <<>>)
    ELSE Success("Fixed permissions", taken, <<sid>>)

\* the Outcome of _fix_env_permissions
PermOutcome(taken, errs, sid) ==
    IF errs # <<>> /\ taken = <<>>
    THEN Failure("Fix .env permissions", "errors", <<>>)
    ELSE IF errs # <<>>
         THEN Success("Fixed file(s) with error(s)", taken \o errs, <<sid>>)
         ELSE Success("Fixed permissions", taken, <<sid>>)

PermFinish ==
    /\ pc = "perm_loop" /\ files = <<>>
    /\ outcome' = PermOutcome(actions_taken, errors, session_id)
    /\ pc' = "done"
    /\ UNCHANGED <<sysVars, journalVars, stage, handler, localVars, histVars>>

\* ------------------------------------------------- SSHRemediation.execute
\* a configuration text is a sequence of lines, each ended by a newline. A
\* line is a directive "Name value" that starts in the first column
\* ("active"), after white space ("indented") or after "#" ("commented"), the
\* value "" standing for a keyword alone on its line; or it is a "blank"
\* line, a "comment", or the directive of a setting that is not required
\* ("other")
Line(kind, name, value) == [kind |-> kind, name |-> name, value |-> value]

SECURE_SETTINGS ==
    << [name |-> "PermitRootLogin", value |-> "prohibit-password"],
       [name |-> "PasswordAuthentication", value |-> "no"],
       [name |-> "PubkeyAuthentication", value |-> "yes"],
       [name |-> "PermitEmptyPasswords", value |-> "no"] >>

\* the first line from i on that is not blank, 0 if there is none: what
\* "\s*" and "\s+" run over, newlines included
NextNonBlank(content, i) ==
    LET rest == {j \in i..Len(content) : content[j].kind # "blank"} IN
    IF rest = {} THEN 0 ELSE CHOOSE j \in rest : \A other \in rest : j <= other

\* '^#?\s*{setting}' from the start of line i: the line of the keyword, 0 if
\* there is no match. "#?" is tried at the start of the match only, so the
\* keyword is reached over blank lines unless it is commented
MatchesSetting(content, i, setting) ==
    LET j == NextNonBlank(content, i) IN
    IF /\ j # 0
       /\ content[j].name = setting
       /\ \/ content[j].kind \in {"active", "indented"}
          \/ content[j].kind = "commented" /\ j = i
    THEN j ELSE 0

\* pattern '^#?\s*{setting}\s+\S+.*$' from the start of line i: the last line
\* of the match, 0 if there is none. After a keyword alone on its line "\s+"
\* runs over the newline and "\S+.*$" takes the next line that is not blank
MatchEnd(content, i, setting) ==
    LET j == MatchesSetting(content, i, setting) IN
    IF j = 0 THEN 0
    ELSE IF content[j].value # "" THEN j
    ELSE NextNonBlank(content, j + 1)

\* correct_pattern '^{setting}\s+{value}\s*$' on one line
MatchesCorrect(line, setting, value) ==
    line.kind = "active" /\ line.name = setting /\ line.value = value

\* re.sub(pattern, replacement, content) from line i on: every match, found
\* from left to right, becomes the line '{setting} {value}'
RECURSIVE Sub(_, _, _, _)
Sub(content, i, setting, value) ==
    IF i > Len(content) THEN <<>>
    ELSE IF MatchEnd(content, i, setting) # 0
         THEN <<Line("active", setting, value)>>
              \o Sub(content, MatchEnd(content, i, setting) + 1, setting, value)
         ELSE <<content[i]>> \o Sub(content, i + 1, setting, value)

\* _fix_setting(content, setting, value) -> (content, was_fixed)
fix_setting(content, setting, value) ==
    IF \E i \in DOMAIN content : MatchEnd(content, i, setting) # 0
    THEN IF \E i \in DOMAIN content : MatchesCorrect(content[i], setting, value)
         THEN [content |-> content, was_fixed |-> FALSE]
         ELSE [content |-> Sub(content, 1, setting, value), was_fixed |-> TRUE]
    ELSE [content |-> content \o <<Line("blank", "", ""),
                                   Line("comment", "Added by VPS Security Monitor", ""),
                                   Line("active", setting, value)>>,
          was_fixed |-> TRUE]

\* the loop "for setting, secure_value in self.SECURE_SETTINGS.items()"
RECURSIVE FixSettings(_, _, _)
FixSettings(content, fixed, i) ==
    IF i > Len(SECURE_SETTINGS)
    THEN [content |-> content, fixed_settings |-> fixed]
    ELSE LET r == fix_setting(content, SECURE_SETTINGS[i].name, SECURE_SETTINGS[i].value)
         IN FixSettings(r.content,
                        IF r.was_fixed
                        THEN Append(fixed, Detail(SECURE_SETTINGS[i].name,
                                                  SECURE_SETTINGS[i].value))
                        ELSE fixed,
                        i + 1)

\* the configuration of a fresh installation
DefaultConfig == << Line("other", "Port", "22"),
                    Line("commented", "PermitRootLogin", "prohibit-password"),
                    Line("commented", "PasswordAuthentication", "yes") >>

\* configuration texts the daemon is found with
SshConfigs ==
    { << Line("active", "PermitRootLogin", "prohibit-password"),
         Line("active", "PasswordAuthentication", "no"),
         Line("active", "PubkeyAuthentication", "yes"),
         Line("active", "PermitEmptyPasswords", "no") >>,
      DefaultConfig,
      << Line("active", "PermitRootLogin", "yes"),
         Line("active", "PasswordAuthentication", "yes"),
         Line("active", "PubkeyAuthentication", "yes"),
         Line("active", "PermitEmptyPasswords", "no") >>,
      << Line("active", "PermitRootLogin", "prohibit-password"),
         Line("indented", "PasswordAuthentication", "no"),
         Line("active", "PubkeyAuthentication", "yes"),
         Line("active", "PermitEmptyPasswords", "no") >>,
      << Line("other", "Port", "22"),
         Line("blank", "", ""),
         Line("active", "PasswordAuthentication", "yes"),
         Line("active", "PubkeyAuthentication", "yes"),
         Line("commented", "PermitEmptyPasswords", ""),
         Line("active", "PermitRootLogin", "prohibit-password") >> }

\* the mode a newly created file gets from the umask of the process
UmaskModes == {420, 384}

\* "if not os.path.exists(config_path)", then the read of original_content
SshBegin ==
    /\ pc = "idle" /\ stage = SshStage
    /\ Begin("fix_ssh_config")
    /\ cmdLog' = <<>>
    /\ IF ~fs[CONFIG_PATH].exists
       THEN /\ outcome' = Failure("Fix SSH config", "SSH config not found", <<>>)
            /\ pc' = "done"
            /\ UNCHANGED original_content
       ELSE /\ original_content' = fs[CONFIG_PATH].content
            /\ outcome' = NoOutcome
            /\ pc' = "ssh_backup"
    /\ UNCHANGED <<sysVars, journalVars, stage, ports, files, rules_before,
                   new_content, backup_id>>

\* backup_id = self.rollback_manager.backup_file(config_path): the original
\* text is saved as a file-content Change Record, or the call raises
backup_file(filepath, how) ==
    \E umask_mode \in UmaskModes :
        record_file_change(filepath, fs[filepath].content, umask_mode, how)

\* the backup, the loop over SECURE_SETTINGS, and the return when nothing changed
SshBackupAndFix ==
    /\ pc = "ssh_backup"
    /\ \/ /\ \E how \in SaveResults : backup_file(CONFIG_PATH, how)
          /\ backup_id' = FileBackupName(session_id, CONFIG_PATH)
          /\ LET r == FixSettings(original_content, <<>>, 1) IN
              /\ new_content' = r.content
              /\ actions_taken' = r.fixed_settings
              /\ IF r.fixed_settings = <<>>
                 THEN /\ outcome' = Success("SSH config check",
                                            <<Detail("SSH configuration already secure", "")>>,
                                            FileBackupName(session_id, CONFIG_PATH))
                      /\ pc' = "done"
                 ELSE /\ pc' = "ssh_write"
                      /\ UNCHANGED outcome
       \/ \* except Exception
          /\ outcome' = Failure("Fix SSH config", "Unexpected error", <<>>)
          /\ pc' = "done"
          /\ UNCHANGED <<changes, sessions, artifacts, save_ok, backup_id, new_content,
                         actions_taken>>
    /\ UNCHANGED <<sysVars, runVars, stage, handler, ports, files, errors,
                   rules_before, original_content, histVars>>

\* f.write(text) on the configuration file, journal state logged
WriteConfig(text) ==
    /\ fs' = [fs EXCEPT ![CONFIG_PATH].content = text]
    /\ mutLog' = mutLog \cup {Mutation("write", CONFIG_PATH, "file", CONFIG_PATH,
                                       changes, sessions[session_id])}

\* with open(config_path, 'w'), or PermissionError
SshWrite ==
    /\ pc = "ssh_write"
    /\ \/ /\ WriteConfig(new_content)
          /\ pc' = "ssh_validate"
          /\ UNCHANGED outcome
       \/ /\ outcome' = Failure("Fix SSH config",
                                "Permission denied - must run as root", <<>>)
          /\ pc' = "done"
          /\ UNCHANGED <<fs, mutLog>>
    /\ UNCHANGED <<ufwActive, ufwRules, journalVars, stage, handler, localVars,
                   cmdLog, active_before, content_before, journal_mark, validated,
                   restarts>>

\* the test "returncode != 0" after "sshd -t"
ValidationFailedOnExitOnly(rc) == rc > 0
ValidationFailed(rc) == rc # 0

\* "sshd -t"; on failure the original text is written back
SshValidate ==
    /\ pc = "ssh_validate"
    /\ \E rc \in RC :
        /\ cmdLog' = Append(cmdLog, Cmd("sshd -t", 0, rc))
        /\ IF ValidationFailed(rc)
           THEN /\ WriteConfig(original_content)
                /\ outcome' = Failure("Fix SSH config",
                                      "Config validation failed, rolled back",
                                      actions_taken)
                /\ pc' = "done"
                /\ UNCHANGED validated
           ELSE /\ validated' = IF rc = 0 THEN <<fs[CONFIG_PATH].content>> ELSE <<>>
                /\ pc' = "ssh_restart"
                /\ UNCHANGED <<fs, mutLog, outcome>>
    /\ UNCHANGED <<ufwActive, ufwRules, journalVars, stage, handler, localVars,
                   active_before, content_before, journal_mark, restarts>>

\* one command of _restart_ssh, with the text on disk when it is issued
RestartCommand(cmd, rc) ==
    /\ cmdLog' = Append(cmdLog, Cmd(cmd, 0, rc))
    /\ restarts' = Append(restarts, [on_disk |-> fs[CONFIG_PATH].content,
                                     validated |-> validated, rc |-> rc])

SYSTEMCTL == "systemctl restart sshd || systemctl restart ssh"
SERVICE == "service sshd restart || service ssh restart"

\* success, msg = self._restart_ssh(): the systemctl command
SshRestartSystemctl ==
    /\ pc = "ssh_restart"
    /\ \E rc \in RC :
        /\ RestartCommand(SYSTEMCTL, rc)
        /\ IF rc = 0
           THEN /\ outcome' = Success("Fixed SSH security", actions_taken, backup_id)
                /\ pc' = "done"
           ELSE /\ pc' = "ssh_restart_service"
                /\ UNCHANGED outcome
    /\ UNCHANGED <<sysVars, journalVars, stage, handler, localVars, mutLog,
                   active_before, content_before, journal_mark, validated>>

\* _restart_ssh: the service command, tried when systemctl failed
SshRestartService ==
    /\ pc = "ssh_restart_service"
    /\ \E rc \in RC :
        /\ RestartCommand(SERVICE, rc)
        /\ IF rc = 0
           THEN /\ outcome' = Success("Fixed SSH security", actions_taken, backup_id)
                /\ pc' = "done"
           ELSE /\ pc' = "ssh_restore"
                /\ UNCHANGED outcome
    /\ UNCHANGED <<sysVars, journalVars, stage, handler, localVars, mutLog,
                   active_before, content_before, journal_mark, validated>>

\* the text written back when the restart failed
RestoredTextKeepsEdit(original, edited) == edited
RestoredText(original, edited) == original

\* "if not success": the original text is written back
SshRestore ==
    /\ pc = "ssh_restore"
    /\ WriteConfig(RestoredText(original_content, new_content))
    /\ pc' = "ssh_recover"
    /\ UNCHANGED <<ufwActive, ufwRules, journalVars, stage, handler, localVars,
                   outcome, cmdLog, active_before, content_before, journal_mark,
                   validated, restarts>>

\* the second self._restart_ssh(), its result ignored: the systemctl command
SshRecoverSystemctl ==
    /\ pc = "ssh_recover"
    /\ \E rc \in RC :
        /\ RestartCommand(SYSTEMCTL, rc)
        /\ IF rc = 0
           THEN /\ outcome' = Failure("Fix SSH config", "SSH restart failed, rolled back",
                                      actions_taken)
                /\ pc' = "done"
           ELSE /\ pc' = "ssh_recover_service"
                /\ UNCHANGED outcome
    /\ UNCHANGED <<sysVars, journalVars, stage, handler, localVars, mutLog,
                   active_before, content_before, journal_mark, validated>>

\* the second self._restart_ssh(): the service command, then the failure Outcome
SshRecoverService ==
    /\ pc = "ssh_recover_service"
    /\ \E rc \in RC : RestartCommand(SERVICE, rc)
    /\ outcome' = Failure("Fix SSH config", "SSH restart failed, rolled back",
                          actions_taken)
    /\ pc' = "done"
    /\ UNCHANGED <<sysVars, journalVars, stage, handler, localVars, mutLog,
                   active_before, content_before, journal_mark, validated>>

\* ------------------------------------------------------------ the dispatcher
\* the locals of a handler and the history of its execution, before it runs
NoExecution ==
    /\ handler = None
    /\ ports = <<>> /\ files = <<>> /\ actions_taken = <<>> /\ errors = <<>>
    /\ rules_before = [active |-> FALSE, rules |-> {}]
    /\ original_content = <<>> /\ new_content = <<>> /\ backup_id = Absent
    /\ outcome = NoOutcome
    /\ cmdLog = <<>> /\ mutLog = {}
    /\ active_before = FALSE /\ content_before = <<>> /\ journal_mark = 0
    /\ validated = <<>> /\ restarts = <<>>

\* execute() has returned to process_remediation, which goes on to the next
\* finding; the frame of the handler is gone
Return ==
    /\ pc = "done"
    /\ pc' = "idle"
    /\ stage' = IF stage = SshStage THEN LastStage ELSE stage + 1
    /\ handler' = None
    /\ ports' = <<>> /\ files' = <<>> /\ actions_taken' = <<>> /\ errors' = <<>>
    /\ rules_before' = [active |-> FALSE, rules |-> {}]
    /\ original_content' = <<>> /\ new_content' = <<>> /\ backup_id' = Absent
    /\ outcome' = NoOutcome
    /\ cmdLog' = <<>> /\ mutLog' = {}
    /\ active_before' = FALSE /\ content_before' = <<>> /\ journal_mark' = 0
    /\ validated' = <<>> /\ restarts' = <<>>
    /\ UNCHANGED <<sysVars, journalVars>>

\* a finding that is not remediated
Skip ==
    /\ pc = "idle" /\ stage \in {FirewallStage, PermissionStage}
    /\ stage' = stage + 1
    /\ UNCHANGED <<sysVars, journalVars, pc, handler, localVars, outcome, histVars>>

\* the session has just begun and was never rolled back
NoRollback ==
    /\ run_over = FALSE /\ crashed = FALSE
    /\ rb = [nth |-> 0, target |-> Absent, success |-> FALSE, error |-> None,
             rolled_back |-> <<>>, errors |-> <<>>]
    /\ fs0 = fs
    /\ durable = <<>>
    /\ interfered = FALSE
    /\ lastOp = "init"

\* ----------------------------------------------------------- specification
\* a file as a run can find it
File(exists, mode, content) == [exists |-> exists, mode |-> mode, content |-> content]

\* the default retention, and no cleanup has had anything to do
NoCleanup == [stored |-> {}, deleted |-> {}, raised |-> FALSE]
NoCommand == [command |-> "none", entries |-> <<>>, failed |-> FALSE, exit |-> <<>>]
DefaultRetention ==
    max_backups = DEFAULT_MAX_BACKUPS /\ cleanup = NoCleanup /\ cli = NoCommand

\* no scan is in progress
NoScan ==
    /\ config = [dry_run |-> FALSE, enabled |-> TRUE, auto_fix |-> {}]
    /\ scan_pc = "none"
    /\ check_ix = 1 /\ rem_ix = 1
    /\ results = <<>> /\ auto_fixed = <<>> /\ alerts = <<>>
    /\ exit_status = Absent
    /\ ran = <<>> /\ handled = <<>> /\ running = {}
    /\ notified = "none"

\* a scan run (firewall finding, then file permission finding), or a run of
\* the SSH handler
Init ==
    /\ ufwActive \in BOOLEAN
    /\ ufwRules = {}
    /\ \/ /\ stage = FirewallStage
          /\ allowed_ports \in AllowedPortConfigs
          /\ \E a \in {File(TRUE, 420, "secret"), File(TRUE, 384, "secret")},
                b \in {File(TRUE, 420, "secret"), File(FALSE, 0, "")} :
              fs = [p \in Paths |->
                      CASE p = CONFIG_PATH -> File(TRUE, 420, DefaultConfig)
                        [] p = "/srv/a/.env" -> a
                        [] OTHER -> b]
       \/ /\ stage = SshStage
          /\ allowed_ports = <<>>
          /\ \E cfg \in SshConfigs, ex \in BOOLEAN :
              fs = [p \in Paths |->
                      IF p = CONFIG_PATH THEN File(ex, 420, cfg)
                      ELSE File(TRUE, 420, "secret")]
    /\ session_id = FirstSession
    /\ changes = <<>>
    /\ sessions = (FirstSession :> NoFile)
    /\ artifacts = <<>>
    /\ save_ok = TRUE
    /\ pc = "idle"
    /\ NoExecution
    /\ NoRollback
    /\ NoScan
    /\ DefaultRetention

Next ==
    \/ EnableStatusNumbered
    \/ EnableRecordUfwChange
    \/ EnableAllowSsh
    \/ EnableAllowPort
    \/ EnableActivate
    \/ EnableVerify
    \/ EnableRecordCommand
    \/ AddRulesBegin
    \/ AddRulesRecordUfwChange
    \/ AddRulesAllowPort
    \/ AddRulesFinish
    \/ SshBegin
    \/ SshBackupAndFix
    \/ SshWrite
    \/ SshValidate
    \/ SshRestartSystemctl
    \/ SshRestartService
    \/ SshRestore
    \/ SshRecoverSystemctl
    \/ SshRecoverService
    \/ PermBegin
    \/ PermRecord
    \/ PermChmod
    \/ PermFinish
    \/ Return
    \/ Skip

Spec == Init /\ [][Next]_vars

\* ------------------------------------------------- retention of sessions
\* the identifiers of the sessions that have a session file in backup_dir
Stored(ss) == {sid \in DOMAIN ss : ss[sid].state # "none"}

\* the first k names of sorted(sessions): the k oldest identifiers
NewestFirst(S, k) == {sid \in S : Cardinality({other \in S : other > sid}) < k}
Oldest(S, k) == {sid \in S : Cardinality({other \in S : other < sid}) < k}

\* number of passes of "while len(sessions) > self.max_backups"
Excess(S, m) == IF Cardinality(S) > m THEN Cardinality(S) - m ELSE 0

\* the files of backup_dir after _cleanup_old_backups removed the sessions of
\* deleted: their session files and the files named backup_<session_id>_*
cleanup_old_backups(ss, arts, deleted) ==
    [sessions |-> [sid \in DOMAIN ss |-> IF sid \in deleted THEN NoFile ELSE ss[sid]],
     artifacts |-> [name \in {n \in DOMAIN arts :
                                ~(n[1] = "backup" /\ n[2] \in deleted)} |-> arts[name]]]

\* ------------------------------------------- RollbackManager.rollback_session
\* shutil.copy(backup_file, path): the content and the permission bits of
\* the backup; umask_mode is the mode of a file created without them
RestoreFileContentOnly(file, backup, umask_mode) ==
    [exists |-> TRUE,
     mode |-> IF file.exists THEN file.mode ELSE umask_mode,
     content |-> backup.content]
RestoreFile(file, backup, umask_mode) ==
    [exists |-> TRUE, mode |-> backup.mode, content |-> backup.content]

\* the body of "for change in reversed(...)" on st = [fs, arts, rolled_back, errors],
\* arts the backup files of the directory
UndoChangeUnlessFailed(st, change, umask_mode) ==
    IF st.errors # <<>> THEN st ELSE
    CASE change.type = "permission" ->
            IF ParseOct(change.original_mode) < 0 \/ ~st.fs[change.path].exists
            THEN \* ValueError of int(), FileNotFoundError of os.chmod
                 [st EXCEPT !.errors = Append(@, change)]
            ELSE [st EXCEPT !.fs[change.path].mode = ParseOct(change.original_mode),
                            !.rolled_back = Append(@, Detail("Restored permissions on",
                                                             change.path))]
      [] change.type = "file" /\ change.backup_file # Absent ->
            IF change.backup_file \in DOMAIN st.arts
            THEN [st EXCEPT !.fs[change.path] =
                                RestoreFile(@, st.arts[change.backup_file], umask_mode),
                            !.rolled_back = Append(@, Detail("Restored file", change.path))]
            ELSE st
      [] change.type = "ufw" ->
            [st EXCEPT !.rolled_back =
                Append(@, Detail("UFW change logged - manual review recommended", ""))]
      [] OTHER -> st
UndoChange(st, change, umask_mode) ==
    CASE change.type = "permission" ->
            IF ParseOct(change.original_mode) < 0 \/ ~st.fs[change.path].exists
            THEN \* ValueError of int(), FileNotFoundError of os.chmod
                 [st EXCEPT !.errors = Append(@, change)]
            ELSE [st EXCEPT !.fs[change.path].mode = ParseOct(change.original_mode),
                            !.rolled_back = Append(@, Detail("Restored permissions on",
                                                             change.path))]
      [] change.type = "file" /\ change.backup_file # Absent ->
            IF change.backup_file \in DOMAIN st.arts
            THEN [st EXCEPT !.fs[change.path] =
                                RestoreFile(@, st.arts[change.backup_file], umask_mode),
                            !.rolled_back = Append(@, Detail("Restored file", change.path))]
            ELSE st
      [] change.type = "ufw" ->
            [st EXCEPT !.rolled_back =
                Append(@, Detail("UFW change logged - manual review recommended", ""))]
      [] OTHER -> st

\* the loop over reversed(data.get('changes', [])): records i, i-1, ..., 1
RECURSIVE UndoFrom(_, _, _, _)
UndoFrom(st, recs, i, umask_mode) ==
    IF i = 0 THEN st
    ELSE UndoFrom(UndoChange(st, recs[i], umask_mode), recs, i - 1, umask_mode)

\* rollback_session(session_id) in the backup directory dir = [sessions,
\* artifacts] on the files files_now: the files afterwards and the result
\* dictionary
rollback_session(dir, sid, files_now, umask_mode) ==
    IF sid \notin DOMAIN dir.sessions \/ dir.sessions[sid].state = "none"
    THEN [fs |-> files_now, success |-> FALSE, error |-> "not found",
          rolled_back |-> <<>>, errors |-> <<>>]
    ELSE IF dir.sessions[sid].state = "partial"
    THEN \* json.load raises: the outer except
         [fs |-> files_now, success |-> FALSE, error |-> "JSONDecodeError",
          rolled_back |-> <<>>, errors |-> <<>>]
    ELSE LET st == UndoFrom([fs |-> files_now, arts |-> dir.artifacts,
                             rolled_back |-> <<>>, errors |-> <<>>],
                            dir.sessions[sid].records, Len(dir.sessions[sid].records),
                            umask_mode)
         IN [fs |-> st.fs, success |-> st.errors = <<>>, error |-> None,
             rolled_back |-> st.rolled_back, errors |-> st.errors]

\* -------------------------------------------------- the life of a session
\* file contents
Contents == {"v0", "v1"}

\* how a _save ends in a process that can be killed: as SaveResults, or the
\* process dies between open(session_file, 'w') and the end of json.dump
SaveOrCrash == SaveResults \cup {"crash"}

\* the journal after a record_* call
Recorded(how) ==
    /\ crashed' = (how = "crash")
    /\ run_over' = (how = "crash")
    /\ durable' = IF how = "ok" THEN changes' ELSE durable
    /\ lastOp' = "record"
    /\ UNCHANGED <<session_id, rb, fs0, interfered>>

\* one file of the permission fix: record_permission_change, then os.chmod
FixPermission ==
    /\ ~run_over /\ Len(changes) < MaxChanges
    /\ \E filepath \in EnvPaths, how \in SaveOrCrash :
        /\ fs[filepath].exists
        /\ record_permission_change(filepath, ModeStr(fs[filepath].mode),
                                    TARGET_MODE_STR, how)
        /\ Recorded(how)
        /\ fs' = IF how = "crash" THEN fs
                 ELSE [fs EXCEPT ![filepath].mode = TARGET_MODE]
    /\ UNCHANGED <<ufwActive, ufwRules, execVars, scanVars>>

\* a guarded change of a file content: record_file_change with the current
\* content as backup_content, then the write of the new content
ChangeFileContent ==
    /\ ~run_over /\ Len(changes) < MaxChanges
    /\ \E filepath \in EnvPaths, how \in SaveOrCrash, text \in Contents,
          umask_mode \in UmaskModes :
        /\ fs[filepath].exists /\ text # fs[filepath].content
        /\ record_file_change(filepath, fs[filepath].content, umask_mode, how)
        /\ Recorded(how)
        /\ fs' = IF how = "crash" THEN fs
                 ELSE [fs EXCEPT ![filepath].content = text]
    /\ UNCHANGED <<ufwActive, ufwRules, execVars, scanVars>>

\* the start of a firewall handler in the run: "ufw status numbered" and
\* record_ufw_change, once per session
BackupRules ==
    /\ ~run_over /\ Len(changes) < MaxChanges
    /\ \A i \in 1..Len(changes) : changes[i].type # "ufw"
    /\ \E how \in SaveOrCrash :
        /\ record_ufw_change("add_missing_rules", Listing(0), how)
        /\ Recorded(how)
    /\ UNCHANGED <<sysVars, execVars, scanVars>>

\* one port of _add_missing_rules whose rule is missing: "ufw allow" returned
\* 0, then record_command
AllowMissingPort ==
    /\ ~run_over /\ Len(changes) < MaxChanges
    /\ \E port \in {443} \ ufwRules, how \in SaveOrCrash :
        /\ ufwRules' = ufwRules \cup {port}
        /\ record_command("ufw allow", how)
        /\ Recorded(how)
    /\ UNCHANGED <<ufwActive, fs, execVars, scanVars>>

\* the process exits
EndRun ==
    /\ ~run_over
    /\ run_over' = TRUE
    /\ lastOp' = "exit"
    /\ UNCHANGED <<sysVars, session_id, changes, sessions, artifacts, save_ok,
                   crashed, rb, fs0, durable, interfered, execVars, scanVars>>

\* environment: somebody removes a file between the run and the rollback
FileRemoved ==
    /\ run_over /\ rb.nth = 0 /\ ~interfered
    /\ \E filepath \in EnvPaths :
        /\ fs[filepath].exists
        /\ fs' = [fs EXCEPT ![filepath].exists = FALSE]
    /\ interfered' = TRUE
    /\ lastOp' = "remove"
    /\ UNCHANGED <<ufwActive, ufwRules, session_id, changes, sessions, artifacts,
                   save_ok, run_over, crashed, rb, fs0, durable, execVars, scanVars>>

\* "sys.exit(0 if result['success'] else 1)" of --rollback
RollbackExit(success) == IF success THEN 0 ELSE 1

\* a later invocation: --rollback <session_id> constructs a RollbackManager
\* (with its cleanup) and calls rollback_session on a session of the directory
Rollback ==
    /\ run_over
    /\ \E sid \in DOMAIN sessions, umask_mode \in UmaskModes,
          passes \in 0..Excess(Stored(sessions), max_backups) :
        LET deleted == Oldest(Stored(sessions), passes)
            dir == cleanup_old_backups(sessions, artifacts, deleted)
            r == rollback_session(dir, sid, fs, umask_mode) IN
        /\ sessions' = dir.sessions
        /\ artifacts' = dir.artifacts
        /\ cleanup' = [stored |-> Stored(sessions), deleted |-> deleted,
                       raised |-> passes < Excess(Stored(sessions), max_backups)]
        /\ fs' = r.fs
        /\ cli' = [command |-> "rollback", entries |-> <<>>, failed |-> ~r.success,
                   exit |-> <<RollbackExit(r.success)>>]
        /\ rb' = [nth |-> IF rb.nth < 2 THEN rb.nth + 1 ELSE 2, target |-> <<sid>>,
                  success |-> r.success, error |-> r.error,
                  rolled_back |-> r.rolled_back, errors |-> r.errors]
    /\ lastOp' = "rollback"
    /\ UNCHANGED <<ufwActive, ufwRules, session_id, changes, save_ok, run_over,
                   crashed, fs0, durable, interfered, scanVars, stage, pc, handler,
                   localVars, outcome, histVars, allowed_ports, max_backups>>

\* the files a session can start from
JournalModes == {420, 384, 36}

InitJournal ==
    /\ ufwActive = FALSE /\ ufwRules = {}
    /\ \E mode \in JournalModes :
        fs = [p \in Paths |->
                CASE p = CONFIG_PATH -> File(TRUE, 420, DefaultConfig)
                  [] p = "/srv/a/.env" -> File(TRUE, mode, "v0")
                  [] OTHER -> File(TRUE, 420, "v0")]
    /\ session_id = FirstSession
    /\ changes = <<>>
    /\ sessions = (FirstSession :> NoFile)
    /\ artifacts = <<>>
    /\ save_ok = TRUE
    /\ stage = LastStage /\ pc = "idle"
    /\ NoExecution
    /\ NoRollback
    /\ NoScan
    /\ allowed_ports = <<>>
    /\ DefaultRetention

NextJournal ==
    \/ FixPermission
    \/ ChangeFileContent
    \/ EndRun
    \/ FileRemoved
    \/ Rollback

SpecJournal == InitJournal /\ [][NextJournal]_vars

\* the sessions of a scan run, with the records of the firewall and of the
\* permission handler, and their replay
NextReplay ==
    \/ BackupRules
    \/ AllowMissingPort
    \/ FixPermission
    \/ EndRun
    \/ Rollback

SpecReplay == InitJournal /\ [][NextReplay]_vars

\* RollbackManager.__init__ in a later invocation of the program: the session
\* identifier sid read from the clock, no changes, and _cleanup_old_backups,
\* which stops at the first os.remove that raises (the exception is logged,
\* not raised). The session file is not written before the first record
InitManager(sid) ==
    /\ session_id' = sid
    /\ changes' = <<>>
    /\ \E passes \in 0..Excess(Stored(sessions), max_backups) :
        LET deleted == Oldest(Stored(sessions), passes)
            dir == cleanup_old_backups(sessions, artifacts, deleted) IN
        /\ sessions' = IF sid \in DOMAIN dir.sessions THEN dir.sessions
                       ELSE Put(dir.sessions, sid, NoFile)
        /\ artifacts' = dir.artifacts
        /\ cleanup' = [stored |-> Stored(sessions), deleted |-> deleted,
                       raised |-> passes < Excess(Stored(sessions), max_backups)]
    /\ save_ok' = TRUE
    /\ run_over' = FALSE /\ crashed' = FALSE
    /\ durable' = <<>>
    /\ fs0' = fs
    /\ interfered' = FALSE
    /\ lastOp' = "init"
    /\ cli' = NoCommand
    /\ UNCHANGED <<sysVars, rb, max_backups, scanVars, allowed_ports, stage, pc,
                   handler, localVars, outcome, histVars>>

\* a later invocation, started in a later second than the one before
NewRun ==
    /\ run_over /\ session_id < MaxSessions
    /\ InitManager(session_id + 1)

\* a later invocation, started in the same second as the one before:
\* datetime.now().strftime('%Y%m%d_%H%M%S') gives the same identifier
NewRunSameSecond ==
    /\ run_over
    /\ InitManager(session_id)

\* sorted(os.listdir(backup_dir), reverse=True), of the session files
SortedReverse(S) ==
    [k \in 1..Cardinality(S) |->
        CHOOSE sid \in S : Cardinality({other \in S : other > sid}) = k - 1]

\* list_sessions(): one entry per session file, newest first; json.load
\* raises on a file that holds no complete dump, which ends the loop with
\* the entries read so far (the exception is logged)
ListEntry(ss, sid) == [session_id |-> sid, changes_count |-> Len(ss[sid].records)]
list_sessions(ss) ==
    LET order == SortedReverse(Stored(ss))
        bad == {k \in DOMAIN order : ss[order[k]].state # "ok"}
        read == IF bad = {} THEN Len(order)
                ELSE (CHOOSE k \in bad : \A other \in bad : k <= other) - 1
    IN [entries |-> [k \in 1..read |-> ListEntry(ss, order[k])],
        failed |-> bad # {}]

\* a later invocation: --list-sessions constructs a RollbackManager (with
\* its cleanup), prints list_sessions() and ends with sys.exit(0)
ListSessions ==
    /\ run_over
    /\ \E passes \in 0..Excess(Stored(sessions), max_backups) :
        LET deleted == Oldest(Stored(sessions), passes)
            dir == cleanup_old_backups(sessions, artifacts, deleted) IN
        /\ sessions' = dir.sessions
        /\ artifacts' = dir.artifacts
        /\ cleanup' = [stored |-> Stored(sessions), deleted |-> deleted,
                       raised |-> passes < Excess(Stored(sessions), max_backups)]
        /\ cli' = [command |-> "list", entries |-> list_sessions(dir.sessions).entries,
                   failed |-> list_sessions(dir.sessions).failed, exit |-> <<0>>]
    /\ lastOp' = "list"
    /\ UNCHANGED <<sysVars, session_id, changes, save_ok, run_over, crashed, rb, fs0,
                   durable, interfered, scanVars, max_backups, allowed_ports, stage,
                   pc, handler, localVars, outcome, histVars>>

\* the journal commands of main on the session of a run
NextCommands ==
    \/ FixPermission
    \/ EndRun
    \/ FileRemoved
    \/ Rollback
    \/ ListSessions

SpecCommands == InitJournal /\ [][NextCommands]_vars

\* the first journaled change of a run: record_file_change(filepath,
\* backup_content) with the content of the file
RecordFileChange ==
    /\ ~run_over /\ changes = <<>>
    /\ \E filepath \in EnvPaths, how \in SaveOrCrash :
        /\ fs[filepath].exists
        /\ record_file_change(filepath, fs[filepath].content, 420, how)
        /\ Recorded(how)
    /\ UNCHANGED <<sysVars, execVars, scanVars>>

\* the first journaled change of a run: record_ufw_change(action,
\* rules_before) with the listing of the rules
RecordUfwChange ==
    /\ ~run_over /\ changes = <<>>
    /\ \E how \in SaveOrCrash :
        /\ record_ufw_change("enable_ufw", Listing(0), how)
        /\ Recorded(how)
    /\ UNCHANGED <<sysVars, execVars, scanVars>>

\* the maximum a RollbackManager is constructed with
MaxBackupsConfigs == {1, 2}

InitRetention ==
    /\ ufwActive = FALSE /\ ufwRules = {}
    /\ fs = [p \in Paths |->
                IF p = CONFIG_PATH THEN File(TRUE, 420, DefaultConfig)
                ELSE File(TRUE, 420, "v0")]
    /\ session_id = FirstSession
    /\ changes = <<>>
    /\ sessions = (FirstSession :> NoFile)
    /\ artifacts = <<>>
    /\ save_ok = TRUE
    /\ stage = LastStage /\ pc = "idle"
    /\ NoExecution
    /\ NoRollback
    /\ NoScan
    /\ allowed_ports = <<>>
    /\ max_backups \in MaxBackupsConfigs
    /\ cleanup = NoCleanup
    /\ cli = NoCommand

\* runs one after the other, each journaling its changes in its own session
NextRetention ==
    \/ NewRun
    \/ RecordFileChange
    \/ RecordUfwChange
    \/ EndRun

SpecRetention == InitRetention /\ [][NextRetention]_vars

\* runs one after the other, and invocations that list their sessions
NextListing ==
    \/ NewRun
    \/ NewRunSameSecond
    \/ RecordUfwChange
    \/ EndRun
    \/ ListSessions

SpecListing == InitRetention /\ [][NextListing]_vars

\* the journal commands of main on a backup directory that runs fill, each
\* run started in a later second than the one before
NextStore ==
    \/ NewRun
    \/ RecordUfwChange
    \/ EndRun
    \/ ListSessions
    \/ Rollback

SpecStore == InitRetention /\ [][NextStore]_vars

\* ------------------------------------------------------------ the scan
\* number of registered checks (ALL_CHECKS); a check is named by its position
NumChecks == 2

\* Severity
CRITICAL == "critical"
WARNING == "warning"
INFO == "info"
OK == "ok"

\* CheckResult
CheckResult(check_name, severity, message, details, auto_fixable, fix_action) ==
    [check_name |-> check_name, severity |-> severity, message |-> message,
     details |-> details, auto_fixable |-> auto_fixable, fix_action |-> fix_action]

\* what a check's run() can return: severity, auto_fixable, fix_action
ReturnKinds ==
    {<<OK, FALSE, None>>, <<INFO, FALSE, None>>, <<WARNING, FALSE, None>>,
     <<WARNING, TRUE, "fix_env_permissions">>,
     <<WARNING, TRUE, "add_missing_rules">>,
     <<CRITICAL, FALSE, "install_ufw">>,
     <<CRITICAL, TRUE, "enable_ufw">>,
     <<CRITICAL, TRUE, "fix_ssh_config">>}

\* the error texts str(e) of a check that raises
CheckErrors == {"boom"}

\* what running check i does: it returns a CheckResult or raises
CheckOutcomes(i) ==
    {[raised |-> FALSE, error |-> None,
      result |-> CheckResult(i, k[1], <<"finding", "">>, <<>>, k[2], k[3])] :
        k \in ReturnKinds}
    \cup {[raised |-> TRUE, error |-> e,
           result |-> CheckResult(i, OK, <<"", "">>, <<>>, FALSE, None)] :
            e \in CheckErrors}

\* the CheckResult of the except branch of run_checks
CheckFailedAsCritical(i, e) ==
    CheckResult(i, CRITICAL, <<"Check failed with error:", e>>, <<e>>, FALSE, None)
CheckFailed(i, e) ==
    CheckResult(i, WARNING, <<"Check failed with error:", e>>, <<e>>, FALSE, None)

\* the configurations of a scan: --dry-run, remediation.enabled,
\* remediation.auto_fix
Configs ==
    {[dry_run |-> TRUE, enabled |-> TRUE, auto_fix |-> {}],
     [dry_run |-> FALSE, enabled |-> FALSE, auto_fix |-> {}],
     [dry_run |-> FALSE, enabled |-> TRUE, auto_fix |-> {}],
     [dry_run |-> FALSE, enabled |-> TRUE,
      auto_fix |-> {"firewall_disabled", "firewall_missing_rules", "file_permissions"}],
     [dry_run |-> FALSE, enabled |-> TRUE,
      auto_fix |-> {"enable_ufw", "fix_ssh_config"}]}

\* one iteration of the loop of run_checks
RunCheck ==
    /\ scan_pc = "checks" /\ check_ix <= NumChecks
    /\ \E o \in CheckOutcomes(check_ix) :
        /\ results' = Append(results, IF o.raised THEN CheckFailed(check_ix, o.error)
                                      ELSE o.result)
        /\ ran' = Append(ran, o)
    /\ check_ix' = check_ix + 1
    /\ UNCHANGED <<config, scan_pc, rem_ix, auto_fixed, alerts, exit_status, handled,
                   running, notified>>
    /\ UNCHANGED <<sysVars, session_id, lifeVars, changes, sessions, artifacts,
                   save_ok, execVars>>

\* [r for r in results if r.severity in [CRITICAL, WARNING, INFO]]
NotOkNorInfo(rs) == SelectSeq(rs, LAMBDA r : r.severity \in {CRITICAL, WARNING})
NotOk(rs) == SelectSeq(rs, LAMBDA r : r.severity \in {CRITICAL, WARNING, INFO})

\* the exit status of the interpreter after an exception nothing caught
UNCAUGHT == 1

\* run_checks has returned: the dry run and the disabled remediation make
\* every result that is not OK an alert, otherwise RollbackManager(backup_dir)
\* is constructed and the loop of process_remediation starts, unless
\* os.makedirs raises, which nothing catches: the process ends with a traceback
ProcessRemediationDuringChecks ==
    /\ scan_pc = "checks" /\ check_ix > 1
    /\ IF config.dry_run \/ ~config.enabled
       THEN /\ alerts' = NotOk(results)
            /\ scan_pc' = "summary"
       ELSE /\ alerts' = <<>>
            /\ scan_pc' \in {"remediate", "crashed"}
    /\ exit_status' = IF scan_pc' = "crashed" THEN <<UNCAUGHT>> ELSE exit_status
    /\ auto_fixed' = <<>>
    /\ rem_ix' = 1
    /\ UNCHANGED <<config, check_ix, results, ran, handled, running, notified>>
    /\ UNCHANGED <<sysVars, session_id, lifeVars, changes, sessions, artifacts,
                   save_ok, execVars>>
ProcessRemediation ==
    /\ scan_pc = "checks" /\ check_ix > NumChecks
    /\ IF config.dry_run \/ ~config.enabled
       THEN /\ alerts' = NotOk(results)
            /\ scan_pc' = "summary"
       ELSE /\ alerts' = <<>>
            /\ scan_pc' \in {"remediate", "crashed"}
    /\ exit_status' = IF scan_pc' = "crashed" THEN <<UNCAUGHT>> ELSE exit_status
    /\ auto_fixed' = <<>>
    /\ rem_ix' = 1
    /\ UNCHANGED <<config, check_ix, results, ran, handled, running, notified>>
    /\ UNCHANGED <<sysVars, session_id, lifeVars, changes, sessions, artifacts,
                   save_ok, execVars>>

\* 'firewall' in fix_action.lower(), 'enable' in fix_action,
\* 'permission' in fix_action.lower(), on the fix actions of ReturnKinds
HasFirewall(fix_action) == FALSE
HasEnable(fix_action) == fix_action = "enable_ufw"
HasPermission(fix_action) == fix_action = "fix_env_permissions"

action_type(fix_action) ==
    IF HasFirewall(fix_action) \/ fix_action \in {"enable_ufw", "add_missing_rules"}
    THEN (IF HasEnable(fix_action) THEN "firewall_disabled"
          ELSE "firewall_missing_rules")
    ELSE IF HasPermission(fix_action) THEN "file_permissions"
    ELSE None

\* the keys of a remediation_map that registered the SSH handler
remediation_map_with_ssh ==
    {"enable_ufw", "add_missing_rules", "fix_env_permissions", "fix_ssh_config"}

\* the keys of remediation_map
remediation_map == {"enable_ufw", "add_missing_rules", "fix_env_permissions"}

\* the finding is handed to a handler
RemediableWithoutAllowList(result) ==
    /\ result.auto_fixable /\ result.fix_action # None
    /\ result.fix_action \in remediation_map
Remediable(result) ==
    /\ result.auto_fixable /\ result.fix_action # None
    /\ (action_type(result.fix_action) \in config.auto_fix
        \/ result.fix_action \in config.auto_fix)
    /\ result.fix_action \in remediation_map

\* how remediation.execute(result) ends for the dispatcher: a
\* RemediationResult with success or without, or an exception
HandlerEnds ==
    {[raised |-> FALSE, success |-> TRUE], [raised |-> FALSE, success |-> FALSE],
     [raised |-> TRUE, success |-> FALSE]}

\* "if fix_result.success" inside the try
FixedOrReturned(end) == ~end.raised
Fixed(end) == ~end.raised /\ end.success

\* one iteration of the loop of process_remediation, up to the call of
\* remediation.execute(result) when the finding is handed to a handler
Remediate ==
    /\ scan_pc = "remediate" /\ rem_ix <= Len(results)
    /\ LET result == results[rem_ix] IN
       IF result.severity # OK /\ Remediable(result)
       THEN /\ running' = running \cup {rem_ix}
            /\ scan_pc' = "execute"
            /\ UNCHANGED <<auto_fixed, alerts, rem_ix>>
       ELSE /\ IF /\ result.severity # OK
                  /\ \/ result.auto_fixable /\ result.fix_action # None
                     \/ result.severity \in {CRITICAL, WARNING, INFO}
               THEN alerts' = Append(alerts, result)
               ELSE UNCHANGED alerts
            /\ rem_ix' = rem_ix + 1
            /\ UNCHANGED <<auto_fixed, running, scan_pc>>
    /\ UNCHANGED <<config, check_ix, results, exit_status, ran, handled, notified>>
    /\ UNCHANGED <<sysVars, session_id, lifeVars, changes, sessions, artifacts,
                   save_ok, execVars>>

\* remediation.execute(result) returns or raises, having journaled a change
\* or none, and the iteration ends
HandlerReturns ==
    /\ scan_pc = "execute"
    /\ \E end \in HandlerEnds :
        /\ handled' = Append(handled, [ix |-> rem_ix, end |-> end])
        /\ IF Fixed(end)
           THEN /\ auto_fixed' = Append(auto_fixed, <<results[rem_ix], end>>)
                /\ UNCHANGED alerts
           ELSE /\ alerts' = Append(alerts, results[rem_ix])
                /\ UNCHANGED auto_fixed
    /\ \/ UNCHANGED <<changes, sessions, artifacts, save_ok>>
       \/ \E how \in SaveResults :
            IF results[rem_ix].fix_action = "fix_env_permissions"
            THEN record_permission_change("/srv/a/.env", ModeStr(fs["/srv/a/.env"].mode),
                                          TARGET_MODE_STR, how)
            ELSE record_ufw_change(results[rem_ix].fix_action, Listing(0), how)
    /\ running' = running \ {rem_ix}
    /\ rem_ix' = rem_ix + 1
    /\ scan_pc' = "remediate"
    /\ UNCHANGED <<config, check_ix, results, exit_status, ran, notified>>
    /\ UNCHANGED <<sysVars, session_id, lifeVars, execVars>>

\* process_remediation returns
RemediationDone ==
    /\ scan_pc = "remediate" /\ rem_ix > Len(results)
    /\ scan_pc' = "summary"
    /\ UNCHANGED <<config, check_ix, results, rem_ix, auto_fixed, alerts,
                   exit_status, ran, handled, running, notified>>
    /\ UNCHANGED <<sysVars, session_id, lifeVars, changes, sessions, artifacts,
                   save_ok, execVars>>

\* sum(1 for r in alerts if r.severity == severity)
RECURSIVE Count(_, _)
Count(rs, severity) ==
    IF rs = <<>> THEN 0
    ELSE (IF Head(rs).severity = severity THEN 1 ELSE 0) + Count(Tail(rs), severity)

\* the exit code at the end of main
ExitCodeWarningFirst(critical_count, warning_count) ==
    IF warning_count > 0 THEN 1 ELSE IF critical_count > 0 THEN 2 ELSE 0
ExitCode(critical_count, warning_count) ==
    IF critical_count > 0 THEN 2 ELSE IF warning_count > 0 THEN 1 ELSE 0

\* "if not args.dry_run" and "if not all_ok or auto_fixed" before
\* notifier.send_summary
ShouldNotifyInDryRun(dry_run, rs, fixed) ==
    (\E i \in DOMAIN rs : rs[i].severity # OK) \/ fixed # <<>>
ShouldNotify(dry_run, rs, fixed) ==
    ~dry_run /\ ((\E i \in DOMAIN rs : rs[i].severity # OK) \/ fixed # <<>>)

\* the summary, the Slack notification, which is sent or fails, and sys.exit
Exit ==
    /\ scan_pc = "summary"
    /\ IF ShouldNotify(config.dry_run, results, auto_fixed)
       THEN notified' \in {"sent", "failed"}
       ELSE notified' = "none"
    /\ exit_status' = <<ExitCode(Count(alerts, CRITICAL), Count(alerts, WARNING))>>
    /\ scan_pc' = "exit"
    /\ UNCHANGED <<config, check_ix, results, rem_ix, auto_fixed, alerts, ran, handled,
                   running>>
    /\ UNCHANGED <<sysVars, session_id, lifeVars, changes, sessions, artifacts,
                   save_ok, execVars>>

InitScan ==
    /\ ufwActive = FALSE /\ ufwRules = {}
    /\ fs = [p \in Paths |->
                IF p = CONFIG_PATH THEN File(TRUE, 420, DefaultConfig)
                ELSE File(TRUE, 420, "v0")]
    /\ session_id = FirstSession
    /\ changes = <<>>
    /\ sessions = (FirstSession :> NoFile)
    /\ artifacts = <<>>
    /\ save_ok = TRUE
    /\ stage = LastStage /\ pc = "idle"
    /\ NoExecution
    /\ NoRollback
    /\ config \in Configs
    /\ scan_pc = "checks"
    /\ check_ix = 1 /\ rem_ix = 1
    /\ results = <<>> /\ auto_fixed = <<>> /\ alerts = <<>>
    /\ exit_status = Absent
    /\ ran = <<>> /\ handled = <<>> /\ running = {}
    /\ notified = "none"
    /\ allowed_ports = <<>>
    /\ DefaultRetention

NextScan ==
    \/ RunCheck
    \/ ProcessRemediation
    \/ Remediate
    \/ HandlerReturns
    \/ RemediationDone
    \/ Exit

SpecScan == InitScan /\ [][NextScan]_vars

\* a scan is one process running main: it takes its next step while it has one
SpecScanFair == InitScan /\ [][NextScan]_vars /\ WF_vars(NextScan)

\* ------------------------------------------------------------------ claims
InHandler(name) == handler = name /\ pc # "idle"
Returned == pc = "done" /\ outcome.kind = "returned"
Issued(cmd) == \E i \in DOMAIN cmdLog : cmdLog[i].cmd = cmd
AllowSshRc == {cmdLog[i].rc : i \in {j \in DOMAIN cmdLog :
                  cmdLog[j].cmd = "ufw allow" /\ cmdLog[j].port = SSH_PORT}}

\* C1: in _enable_ufw "ufw --force enable" is issued only after "ufw allow
\* 22/tcp" returned 0; when the allow command fails (non-zero exit or timeout)
\* the handler returns a failure Outcome whose details state the abort, the
\* activation command is not issued and the filter status is what it was.
C1_EnableOnlyAfterSshAllowed ==
    InHandler("enable_ufw") =>
        /\ \A i \in DOMAIN cmdLog :
              cmdLog[i].cmd = "ufw --force enable" =>
                  \E j \in 1..(i - 1) : cmdLog[j] = Cmd("ufw allow", SSH_PORT, 0)
        /\ (\E rc \in AllowSshRc : rc # 0) =>
              /\ Returned /\ ~outcome.success
              /\ \E d \in DOMAIN outcome.details : outcome.details[d] = ABORTED
              /\ ~Issued("ufw --force enable")
              /\ ufwActive = active_before

\* the allow command timed out on an inactive filter and the handler returned
C1_Witness ==
    /\ InHandler("enable_ufw") /\ pc = "done"
    /\ -1 \in AllowSshRc
    /\ ~ufwActive /\ ~outcome.success

ValidatorFailed ==
    \E i \in DOMAIN cmdLog : cmdLog[i].cmd = "sshd -t" /\ cmdLog[i].rc # 0

\* when "sshd -t" fails the original text is back on disk, no restart was
\* issued and the Outcome is a failure
ValidatorFailureRestores ==
    (InHandler("fix_ssh_config") /\ ValidatorFailed) =>
        /\ Returned /\ ~outcome.success
        /\ fs[CONFIG_PATH].content = content_before
        /\ restarts = <<>>

\* C2 as stated: every restart command is issued while the text on disk is
\* one the validator accepted in this execution; a failing validator restores
\* the original text, issues no restart and gives a failure Outcome.
C2_RestartOnlyOnValidatedText ==
    /\ \A i \in DOMAIN restarts :
          restarts[i].validated = <<restarts[i].on_disk>>
    /\ ValidatorFailureRestores

\* C2 amended: every restart command is issued after the validator accepted
\* the edited text in this execution, while the text on disk is that text or,
\* for the recovery restart after both commands of the first restart failed,
\* the restored original text; a failing validator restores the original
\* text, issues no restart and gives a failure Outcome.
C2_RestartOnlyAfterValidation ==
    /\ \A i \in DOMAIN restarts :
          /\ restarts[i].validated # <<>>
          /\ \/ restarts[i].validated = <<restarts[i].on_disk>>
             \/ /\ restarts[i].on_disk = content_before
                /\ i > 2 /\ restarts[1].rc # 0 /\ restarts[2].rc # 0
    /\ ValidatorFailureRestores

\* a recovery restart was issued on the restored, unvalidated original text
C2_Witness ==
    /\ InHandler("fix_ssh_config")
    /\ Len(restarts) >= 3
    /\ restarts[3].on_disk = content_before
    /\ restarts[3].validated # <<restarts[3].on_disk>>

FirstRestartFailed ==
    Len(restarts) >= 2 /\ restarts[1].rc # 0 /\ restarts[2].rc # 0

RecordedPaths ==
    {changes[i].path : i \in {j \in 1..Len(changes) :
                                  changes[j].type \in {"permission", "file"}}}

\* the session file holds every record of the run
SessionComplete == sessions[session_id] = Saved(changes)

\* a is a prefix of b
IsPrefix(a, b) == Len(a) <= Len(b) /\ \A i \in 1..Len(a) : a[i] = b[i]

\* C5: for a session of permission-change and file-content-change records
\* (any number, any order, several for one path), rollback_session replaying
\* the records in reverse returns every recorded path to the mode and the
\* content it had before the session started.
C5_RollbackRestoresPreSessionState ==
    (lastOp = "rollback" /\ rb.nth = 1 /\ ~interfered /\ SessionComplete)
        => \A path \in RecordedPaths :
              /\ fs[path].mode = fs0[path].mode
              /\ fs[path].content = fs0[path].content

\* C6: a second rollback_session of the same session leaves every file as
\* the first rollback left it (it fails gracefully or is a no-op).
C6_SecondRollbackChangesNothing ==
    [][(lastOp = "rollback" /\ lastOp' = "rollback") => fs' = fs]_vars

\* the session of one permission record and one file record was rolled back
\* twice, and both records were restored
C6_Witness ==
    /\ rb.nth = 2 /\ rb.success /\ SessionComplete
    /\ Len(changes) = 2 /\ Len(rb.rolled_back) = 2
    /\ \E i, j \in 1..2 : /\ changes[i].type = "permission"
                           /\ changes[j].type = "file"
                           /\ changes[i].original_mode = "644"
                           /\ fs[changes[i].path].mode = 420
                           /\ fs[changes[j].path].content = fs0[changes[j].path].content

\* C7: whenever a record_* operation has returned, the session file holds
\* all records appended so far, in append order; and a crash at any point of
\* a run loses at most the record in flight, never a record persisted
\* earlier in the session.
C7_PersistedAfterEveryAppend ==
    /\ (lastOp = "record" /\ ~crashed) => SessionComplete
    /\ crashed => /\ sessions[session_id].state = "ok"
                  /\ IsPrefix(durable, sessions[session_id].records)
                  /\ Len(changes) - Len(sessions[session_id].records) <= 1

\* ---- claims about a scan (SpecScan)
\* the severities among a sequence of findings
Severities(rs) == {rs[i].severity : i \in 1..Len(rs)}

\* OK < INFO < WARNING < CRITICAL
SeverityRank(severity) ==
    CASE severity = OK -> 0
      [] severity = INFO -> 1
      [] severity = WARNING -> 2
      [] OTHER -> 3

\* the highest rank among the severities sevs; OK for none
MaxRank(sevs) ==
    IF sevs = {} THEN 0
    ELSE CHOOSE n \in 0..3 : /\ \E x \in sevs : SeverityRank(x) = n
                             /\ \A x \in sevs : SeverityRank(x) <= n

\* the exit status that belongs to a highest rank
StatusOfRank(n) == IF n = 3 THEN 2 ELSE IF n = 2 THEN 1 ELSE 0

\* C8: the exit status of a scan is a function of the alerts (the findings
\* not auto-fixed) only: 2 iff an alert is CRITICAL, 1 iff none is CRITICAL
\* and one is WARNING, 0 iff none is above INFO; it is the status of the
\* highest severity among the alerts under OK < INFO < WARNING < CRITICAL.
C8_ExitStatusFromAlerts ==
    scan_pc = "exit" =>
        /\ (exit_status = <<2>>) <=> (CRITICAL \in Severities(alerts))
        /\ (exit_status = <<1>>) <=> (/\ CRITICAL \notin Severities(alerts)
                                      /\ WARNING \in Severities(alerts))
        /\ (exit_status = <<0>>) <=> (Severities(alerts) \subseteq {INFO, OK})
        /\ exit_status = <<StatusOfRank(MaxRank(Severities(alerts)))>>

\* a scan ended with status 0 although a CRITICAL finding was found: it was
\* auto-fixed, and the one alert is INFO
C8_Witness ==
    /\ scan_pc = "exit" /\ exit_status = <<0>>
    /\ Severities(alerts) = {INFO}
    /\ \E j \in 1..Len(auto_fixed) : auto_fixed[j][1].severity = CRITICAL

\* the findings no handler fixed
Unfixed ==
    {results[i] : i \in {n \in 1..Len(results) :
        \A k \in 1..Len(handled) : handled[k].ix = n =>
            (handled[k].end.raised \/ ~handled[k].end.success)}}

\* C9: a finding whose handler returned success is in auto_fixed with that
\* outcome, is no alert and does not influence the exit status; a finding
\* whose handler returned failure or raised is an alert, unchanged.
C9_FixedFindingsAreNoAlerts ==
    /\ \A k \in 1..Len(handled) :
        LET result == results[handled[k].ix]
            end == handled[k].end
        IN IF ~end.raised /\ end.success
           THEN /\ \E j \in 1..Len(auto_fixed) : auto_fixed[j] = <<result, end>>
                /\ \A j \in 1..Len(alerts) : alerts[j] # result
           ELSE /\ \E j \in 1..Len(alerts) : alerts[j] = result
                /\ \A j \in 1..Len(auto_fixed) : auto_fixed[j][1] # result
    /\ scan_pc = "exit" =>
        exit_status = <<StatusOfRank(MaxRank({r.severity : r \in Unfixed}))>>

\* a scan ended with one finding fixed and one whose handler raised
C9_Witness ==
    /\ scan_pc = "exit" /\ Len(handled) = 2
    /\ ~handled[1].end.raised /\ handled[1].end.success
    /\ results[handled[1].ix].severity = CRITICAL
    /\ handled[2].end.raised
    /\ exit_status = <<1>>

\* C10: run_checks returns one finding per registered check, in
\* registration order; a check that raised contributes a WARNING finding,
\* not auto-fixable, with the error text, and every other check contributes
\* the finding it returned.
C10_OneFindingPerCheck ==
    /\ Len(results) = check_ix - 1
    /\ scan_pc \in {"remediate", "summary", "exit"} => Len(results) = NumChecks
    /\ \A i \in 1..Len(results) :
        /\ results[i].check_name = i
        /\ IF ran[i].raised
           THEN /\ results[i].severity = WARNING
                /\ ~results[i].auto_fixable
                /\ results[i].fix_action = None
                /\ results[i].message[2] = ran[i].error
           ELSE results[i] = ran[i].result

\* the first check raised, and the second reported its CRITICAL finding
C10_Witness ==
    /\ scan_pc \in {"remediate", "summary", "exit"}
    /\ ran[1].raised
    /\ ~ran[NumChecks].raised /\ results[NumChecks].severity = CRITICAL

\* remediation runs in this scan: no --dry-run, remediation.enabled
RemediationRuns == ~config.dry_run /\ config.enabled

\* the loop of process_remediation has passed results[i]
Visited(i) ==
    \/ scan_pc \in {"remediate", "execute"} /\ i < rem_ix
    \/ scan_pc \in {"summary", "exit"} /\ RemediationRuns

\* a handler was invoked for results[i]
Invoked(i) == \E k \in 1..Len(handled) : handled[k].ix = i

\* the action class of a fix identifier that has a handler
ActionClass(fix_action) ==
    CASE fix_action = "enable_ufw" -> "firewall_disabled"
      [] fix_action = "add_missing_rules" -> "firewall_missing_rules"
      [] fix_action = "fix_env_permissions" -> "file_permissions"
      [] OTHER -> None

\* C11: where remediation runs, a handler is invoked for a finding iff its
\* auto-fixable flag is true, it has a fix identifier, the identifier or its
\* action class is in the auto_fix allow-list, and a handler is registered
\* for the identifier.
C11_HandlerInvokedIffEligible ==
    /\ \A i \in 1..Len(results) :
        Visited(i) =>
            (Invoked(i) <=>
                /\ results[i].auto_fixable
                /\ results[i].fix_action # None
                /\ (results[i].fix_action \in config.auto_fix
                    \/ ActionClass(results[i].fix_action) \in config.auto_fix)
                /\ results[i].fix_action \in
                      {"enable_ufw", "add_missing_rules", "fix_env_permissions"})
    /\ \A i \in 1..Len(results) : ~Visited(i) => ~Invoked(i)

\* the loop is over: a handler was invoked for the firewall finding, none
\* for the allow-listed SSH finding, which has no registered handler
C11_Witness ==
    /\ scan_pc = "summary" /\ RemediationRuns
    /\ \E i, j \in 1..Len(results) :
        /\ results[i].fix_action = "enable_ufw" /\ Invoked(i)
        /\ results[j].fix_action = "fix_ssh_config" /\ ~Invoked(j)
        /\ "fix_ssh_config" \in config.auto_fix

\* results[i] was fixed by its handler
FixedAt(i) ==
    \E k \in 1..Len(handled) :
        handled[k].ix = i /\ ~handled[k].end.raised /\ handled[k].end.success

\* the findings of results at the positions in S, in the order of results
RECURSIVE KeptIn(_, _)
KeptIn(n, S) ==
    IF n = 0 THEN <<>>
    ELSE IF n \in S THEN Append(KeptIn(n - 1, S), results[n])
    ELSE KeptIn(n - 1, S)

\* the findings of auto_fixed
FixedFindings == [j \in 1..Len(auto_fixed) |-> auto_fixed[j][1]]

\* C12: after process_remediation every finding above OK is in exactly one
\* of auto_fixed and alerts; a finding that was not eligible or whose fix
\* failed is in alerts, unmodified; each output keeps the order of results.
C12_NothingDropped ==
    scan_pc \in {"summary", "exit"} =>
        /\ alerts = KeptIn(Len(results),
                           {i \in 1..Len(results) :
                                results[i].severity # OK /\ ~FixedAt(i)})
        /\ FixedFindings = KeptIn(Len(results),
                                  {i \in 1..Len(results) :
                                       results[i].severity # OK /\ FixedAt(i)})

\* process_remediation has returned: the first finding was fixed, the second
\* was handed to a handler that failed, and is the one alert
C12_Witness ==
    /\ scan_pc = "summary" /\ Len(results) >= 2
    /\ FixedAt(1) /\ Invoked(2) /\ ~FixedAt(2)
    /\ alerts = <<results[2]>> /\ FixedFindings = <<results[1]>>

\* ---- claims about the firewall activation (Spec)
\* _enable_ufw has returned a success Outcome
EnableSucceeded == InHandler("enable_ufw") /\ Returned /\ outcome.success

\* the Outcome details name an allow action for the port
AllowDetail(port) ==
    \E d \in DOMAIN outcome.details :
        /\ outcome.details[d].arg = ToString(port)
        /\ outcome.details[d].text \in {"Allowed SSH port", "Allowed port"}

\* the ports of the configured allow-list
AllowList == {allowed_ports[i] : i \in DOMAIN allowed_ports}

\* the activation command returned 0, and a status query issued after it
\* returned the listing of an active filter
ActivatedAndVerified ==
    \E i, j \in DOMAIN cmdLog :
        /\ i < j
        /\ cmdLog[i] = Cmd("ufw --force enable", 0, 0)
        /\ cmdLog[j] = Cmd("ufw status", 0, 0)
        /\ ufwActive

\* C13: when the firewall activation returns a success Outcome, its details
\* include an allow action for the management port and for every port of
\* the configured allow-list, the activation command returned success, and
\* a status query made after the activation reported the filter active.
C13_SuccessListsEveryAllowedPort ==
    EnableSucceeded =>
        /\ AllowDetail(SSH_PORT)
        /\ \A port \in AllowList : AllowDetail(port)
        /\ ActivatedAndVerified

\* C13 (amended): ... for the management port and for every port of the
\* allow-list whose allow command returned 0; every port of the allow-list
\* was attempted.
C13_SuccessListsEveryPortAllowed ==
    EnableSucceeded =>
        /\ AllowDetail(SSH_PORT)
        /\ \A port \in AllowList \ {SSH_PORT} :
              /\ \E i \in DOMAIN cmdLog :
                    cmdLog[i].cmd = "ufw allow" /\ cmdLog[i].port = port
              /\ AllowDetail(port) <=> Cmd("ufw allow", port, 0) \in
                                          {cmdLog[i] : i \in DOMAIN cmdLog}
        /\ ActivatedAndVerified

\* a success with the allow-list 443, 8080: the rule of 8080 was added and
\* is in the details with the management port, the rule of 443 timed out
C13_Witness ==
    /\ EnableSucceeded
    /\ allowed_ports = <<443, 8080>>
    /\ AllowDetail(SSH_PORT) /\ AllowDetail(8080) /\ ~AllowDetail(443)
    /\ ufwRules = {SSH_PORT, 8080}

\* the allow command of an additional (non-management) port failed
AdditionalPortFailed ==
    \E i \in DOMAIN cmdLog :
        /\ cmdLog[i].cmd = "ufw allow" /\ cmdLog[i].port # SSH_PORT
        /\ cmdLog[i].rc # 0

\* every additional port of the allow-list had its allow command issued
AllPortsAttempted ==
    \A port \in AllowList \ {SSH_PORT} :
        \E i \in DOMAIN cmdLog : cmdLog[i].cmd = "ufw allow" /\ cmdLog[i].port = port

\* C14: in the firewall activation a failure to add the allow-rule of an
\* additional port does not fail the handler: when the handler is done after
\* such a failure, the remaining ports were attempted and the activation
\* command was issued, and a failure Outcome is never about the port.
C14_PortFailureDoesNotFail ==
    (InHandler("enable_ufw") /\ AdditionalPortFailed) =>
        /\ pc \in {"enable_verify", "enable_record_command", "done"} =>
              AllPortsAttempted /\ Issued("ufw --force enable")
        /\ (Returned /\ ~outcome.success) =>
              outcome.error \in {"Failed to enable UFW",
                                 "UFW reports inactive after enable command"}

\* the first additional port failed, the second was added, the filter was
\* activated and the Outcome is a success
C14_Witness ==
    /\ EnableSucceeded /\ AdditionalPortFailed
    /\ Len(allowed_ports) = 2
    /\ \E i, j \in DOMAIN cmdLog :
        /\ i < j
        /\ cmdLog[i] = Cmd("ufw allow", allowed_ports[1], -1)
        /\ cmdLog[j] = Cmd("ufw allow", allowed_ports[2], 0)
    /\ ufwActive

\* the activation command failed, or the status query after it did not
\* report the filter active
ActivationUnconfirmed ==
    \E i \in DOMAIN cmdLog :
        /\ cmdLog[i].cmd \in {"ufw --force enable", "ufw status"}
        /\ cmdLog[i].rc # 0

\* the Change Records appended by the handler in execution
AppendedRecords == {changes[i] : i \in (journal_mark + 1)..Len(changes)}

\* C15: in the firewall activation, if the activation command fails or the
\* status query after it does not report the filter active, the Outcome is
\* a failure, every allow-rule already added is still in place and no
\* command record is appended to the journal.
C15_UnconfirmedActivationFails ==
    (InHandler("enable_ufw") /\ ActivationUnconfirmed) =>
        /\ Returned /\ ~outcome.success
        /\ \A i \in DOMAIN cmdLog :
              (cmdLog[i].cmd = "ufw allow" /\ cmdLog[i].rc = 0) =>
                  cmdLog[i].port \in ufwRules
        /\ \A rec \in AppendedRecords : rec.type # "command"

\* the activation returned 0, the status query timed out: a failure, with
\* the rules of 22 and 443 in place and only the ufw record in the journal
C15_Witness ==
    /\ InHandler("enable_ufw") /\ Returned /\ ~outcome.success
    /\ outcome.error = "UFW reports inactive after enable command"
    /\ \E i \in DOMAIN cmdLog : cmdLog[i] = Cmd("ufw status", 0, -1)
    /\ {SSH_PORT, 443} \subseteq ufwRules
    /\ Len(changes) = 1 /\ changes[1].type = "ufw"

\* ---- claims about the replay of a session (SpecJournal)
\* a rollback has just replayed the session file of the run
Replayed == lastOp = "rollback" /\ sessions[session_id].state = "ok"

\* the records of the session file, last appended first
ReplayOrder ==
    LET recs == sessions[session_id].records
    IN [i \in 1..Len(recs) |-> recs[Len(recs) + 1 - i]]

\* the positions of ReplayOrder whose record is a permission record (the
\* other records of these sessions are file records with their artifact)
PermissionPositions ==
    {i \in 1..Len(ReplayOrder) : ReplayOrder[i].type = "permission"}

\* a is b without some of its entries
RECURSIVE IsSubSeq(_, _)
IsSubSeq(a, b) ==
    IF a = <<>> THEN TRUE
    ELSE IF b = <<>> THEN FALSE
    ELSE IF Head(a) = Head(b) THEN IsSubSeq(Tail(a), Tail(b))
    ELSE IsSubSeq(a, Tail(b))

\* the path a rolled-back note is about
NotePaths == [i \in 1..Len(rb.rolled_back) |-> rb.rolled_back[i].arg]

\* C16: rollback replays the Change Records of a session in reverse append
\* order and attempts every record: an error undoing one record goes to the
\* error list and does not stop the undo of the others; the result reports
\* success iff the error list is empty.
C16_ReplayAttemptsEveryRecord ==
    Replayed =>
        /\ rb.success <=> (rb.errors = <<>>)
        /\ Len(rb.rolled_back) + Len(rb.errors) = Len(ReplayOrder)
        /\ IsSubSeq(rb.errors, ReplayOrder)
        /\ IsSubSeq(NotePaths, [i \in 1..Len(ReplayOrder) |-> ReplayOrder[i].path])
        /\ \A i \in 1..Len(rb.errors) : rb.errors[i].type = "permission"

\* the undo of the last record failed, the record appended before it was
\* undone all the same, and the result is no success
C16_Witness ==
    /\ Replayed /\ SessionComplete /\ Len(changes) = 2
    /\ rb.errors = <<changes[2]>>
    /\ Len(rb.rolled_back) = 1 /\ rb.rolled_back[1].arg = changes[1].path
    /\ fs[changes[1].path].mode = fs0[changes[1].path].mode
    /\ ~rb.success

\* the notes of the rollback result that ask for a manual review
ManualReviewNotes ==
    {i \in 1..Len(rb.rolled_back) :
        rb.rolled_back[i].text = "UFW change logged - manual review recommended"}

\* the positions of ReplayOrder whose record has no automated undo
NoUndoPositions ==
    {i \in 1..Len(ReplayOrder) : ReplayOrder[i].type \in {"ufw", "command"}}

\* C17: in a rollback every Change Record without a safe automated undo
\* (firewall-rule-change and command records) produces a manual-review note
\* in the result; no record is skipped silently: the notes and the errors
\* of the result are as many as the records of the session.
C17_NoRecordSkippedSilently ==
    Replayed =>
        /\ Cardinality(ManualReviewNotes) = Cardinality(NoUndoPositions)
        /\ Len(rb.rolled_back) + Len(rb.errors) = Len(ReplayOrder)

\* ---- claims about the permission fix (Spec)
\* C18: the permission fix on a file that is already at the target mode 600
\* returns a success Outcome with zero changes and appends no Change Record:
\* no record of the execution has the target mode as original mode, and a
\* success names a change only for a file some record found at another mode.
C18_NoChangeAtTargetMode ==
    InHandler("fix_env_permissions") =>
        /\ \A rec \in AppendedRecords :
              rec.type = "permission" => rec.original_mode # TARGET_MODE_STR
        /\ (Returned /\ outcome.success) =>
              \A d \in DOMAIN outcome.details :
                  outcome.details[d].text = "-> 600" =>
                      \E rec \in AppendedRecords :
                          /\ rec.path = outcome.details[d].arg
                          /\ rec.original_mode # TARGET_MODE_STR


\* the stored sessions whose session file a step removes
DeletedByStep == {sid \in Stored(sessions) : sessions'[sid] = NoFile}

\* a step that constructs the RollbackManager of the next run
ManagerInitialized == lastOp' = "init" /\ lastOp # "init"

\* the step deletes, of the stored sessions, the oldest ones only, and leaves
\* the files of the others as they are
OldestDeletedOthersIntact ==
    /\ \A gone \in DeletedByStep, kept \in Stored(sessions) \ DeletedByStep :
          gone < kept
    /\ \A kept \in Stored(sessions) \ DeletedByStep :
          sessions'[kept] = sessions[kept]

C20_AtMostMaxSessionFiles ==
    Cardinality(Stored(sessions)) <= max_backups


\* the backup artifacts written for a session: saved file contents and saved
\* firewall rule listings
ArtifactsOf(arts, sid) == {name \in DOMAIN arts : name[2] = sid}

\* C21: whenever retention evicts a session, every backup artifact written for
\* that session is deleted together with the session file, so that every
\* backup artifact in the backup directory belongs to a session whose session
\* file exists
C21_NoOrphanedArtifacts ==
    /\ [][ManagerInitialized =>
            \A sid \in DeletedByStep : ArtifactsOf(artifacts', sid) = {}]_vars
    /\ [](\A name \in DOMAIN artifacts : name[2] \in Stored(sessions))


\* every required setting has a directive in force with its secure value
AllSecure(text) ==
    \A s \in DOMAIN SECURE_SETTINGS :
        \E i \in DOMAIN text :
            /\ text[i].kind \in {"active", "indented"}
            /\ text[i].name = SECURE_SETTINGS[s].name
            /\ text[i].value = SECURE_SETTINGS[s].value

\* the SSH handler has taken the snapshot of the configuration text
SnapshotTaken == InHandler("fix_ssh_config") /\ backup_id # Absent

\* C22: in the configuration rewrite of a text where every required setting is
\* already at its secure value, no setting is counted as changed, the handler
\* returns success with the no-op detail, the configuration file is not
\* written, the validator is not run and the daemon is not restarted
C22_SecureTextIsNoOp ==
    (InHandler("fix_ssh_config") /\ AllSecure(content_before)) =>
        /\ cmdLog = <<>> /\ validated = <<>> /\ restarts = <<>>
        /\ mutLog = {}
        /\ fs[CONFIG_PATH].content = content_before
        /\ SnapshotTaken =>
              /\ actions_taken = <<>>
              /\ Returned
              /\ outcome = Success("SSH config check",
                                   <<Detail("SSH configuration already secure", "")>>,
                                   backup_id)


\* the directive lines a text has for a setting
DirectivesOf(text, name) == {text[i] : i \in {j \in DOMAIN text : text[j].name = name}}

\* the names of the required settings
RequiredNames == {SECURE_SETTINGS[s].name : s \in DOMAIN SECURE_SETTINGS}

\* the settings the Outcome or fixed_settings lists
Listed(details) == {details[d].text : d \in DOMAIN details} \cap RequiredNames

\* C23: the rewrite gives every required setting an active directive with the
\* secure value, replacing the directives of that name or appending one, it
\* leaves the lines of all other settings as they were, and the settings
\* listed as fixed (in the Outcome, on success) are exactly those whose
\* directive was replaced or appended
C23_RewriteSetsEverySettingOnly ==
    (SnapshotTaken /\ pc # "ssh_backup") =>
        /\ \A s \in DOMAIN SECURE_SETTINGS :
              \E i \in DOMAIN new_content :
                  new_content[i] = Line("active", SECURE_SETTINGS[s].name,
                                        SECURE_SETTINGS[s].value)
        /\ \A i \in DOMAIN original_content :
              original_content[i].kind = "other" =>
                  \E j \in DOMAIN new_content : new_content[j] = original_content[i]
        /\ \A name \in RequiredNames :
              name \in Listed(actions_taken) <=>
                  DirectivesOf(new_content, name) # DirectivesOf(original_content, name)
        /\ (Returned /\ outcome.success /\ actions_taken # <<>>) =>
              Listed(outcome.details) = Listed(actions_taken)


\* the positions in results of the findings handed to a handler that has
\* returned or raised, in the order of the calls
HandledOrder == [k \in DOMAIN handled |-> handled[k].ix]

\* C24: in every run at most one remediation handler is executing at any
\* time, no handler starts before all checks have finished, and the handlers
\* are invoked in the order of their findings, each one returning or raising
\* before the next starts
C24_DispatchIsSequential ==
    /\ Cardinality(running) <= 1
    /\ (running # {} \/ handled # <<>>) =>
          /\ Len(ran) = NumChecks /\ Len(results) = NumChecks
          /\ scan_pc # "checks"
    /\ \A k, l \in DOMAIN handled : k < l => HandledOrder[k] < HandledOrder[l]
    /\ \A i \in running :
          /\ scan_pc = "execute" /\ i = rem_ix
          /\ \A k \in DOMAIN handled : HandledOrder[k] < i

\* a second handler is executing after the first one returned
C24_Witness ==
    /\ scan_pc = "execute"
    /\ running = {2}
    /\ HandledOrder = <<1>>


RollbackExitScheme ==
    (cli.command = "rollback" /\ lastOp = "rollback") =>
        /\ cli.exit = <<0>> <=> (rb.success /\ rb.errors = <<>>)
        /\ (rb.error = "not found" \/ rb.errors # <<>>) => cli.exit = <<1>>
        /\ cli.exit \in {<<0>>, <<1>>}

\* --list-sessions exits 0 when the listing succeeded and 1 when it failed
ListExitScheme ==
    cli.command = "list" => cli.exit = (IF cli.failed THEN <<1>> ELSE <<0>>)

\* C26: the journal commands have their own exit scheme: --rollback exits 0
\* iff the rollback succeeded with no errors and 1 when the session is not
\* found or a record failed to undo; --list-sessions exits 0 on success and 1
\* when listing fails
C26_JournalCommandsExitScheme == RollbackExitScheme /\ ListExitScheme


\* what a handler and the system are after a step, the history of the
\* execution left out
HandlerState == <<sysVars, journalVars, stage, pc, handler, localVars, outcome>>

\* the step issues a command that times out (-1) or exits non-zero (1)
CommandFails ==
    /\ Len(cmdLog') = Len(cmdLog) + 1
    /\ cmdLog'[Len(cmdLog')].rc # 0

\* the log with the other failure of its last command
OtherFailure(log) ==
    [log EXCEPT ![Len(log)].rc = IF log[Len(log)].rc = -1 THEN 1 ELSE -1]

\* C27: a timeout of an external command is treated as a non-zero exit: a
\* handler step whose command times out leaves the handler, its Outcome and
\* the system exactly where the same step leaves them when the command exits
\* non-zero, and conversely, so that the commands issued afterwards are the
\* same; and a command that timed out is not issued again as the next command
C27_TimeoutIsNonZeroExit ==
    /\ [][CommandFails =>
            \E after \in {HandlerState'}, log \in {OtherFailure(cmdLog')} :
                ENABLED (Next /\ HandlerState' = after /\ cmdLog' = log)]_vars
    /\ [](\A i \in 1..(Len(cmdLog) - 1) :
            cmdLog[i].rc = -1 =>
                ~(cmdLog[i + 1].cmd = cmdLog[i].cmd /\ cmdLog[i + 1].port = cmdLog[i].port))

\* the activation timed out and the handler returned its failure
C27_Witness ==
    /\ InHandler("enable_ufw") /\ Returned /\ ~outcome.success
    /\ cmdLog[Len(cmdLog)] = Cmd("ufw --force enable", 0, -1)


\* the session file of the running invocation holds only Change Records of
\* that invocation: its records are the first ones of self.changes
OwnSessionFile ==
    session_id \in DOMAIN sessions => IsPrefix(sessions[session_id].records, changes)

\* C28: the session identifier is fixed when the run starts and is unique per
\* invocation: a step that appends a Change Record keeps the identifier and
\* writes no session file but the run's own, a new invocation takes an
\* identifier no earlier invocation had, and a run never writes over a session
\* file holding the records of another run
C28_SessionIdFixedAndUnique ==
    /\ [][changes' # changes /\ changes' # <<>> =>
            /\ session_id' = session_id
            /\ \A sid \in DOMAIN sessions :
                sid # session_id => sessions'[sid] = sessions[sid]]_vars
    /\ [][ManagerInitialized => session_id' \notin DOMAIN sessions]_vars
    /\ [][changes' # changes /\ changes' # <<>> => OwnSessionFile]_vars


\* the step appends a Change Record and its _save does not write the session file
SaveFailed == changes' # changes /\ save_ok' = FALSE

\* a handler and the system after a step, the session files left out
StateButSessionFile ==
    <<sysVars, runVars, changes, artifacts, stage, pc, handler, localVars, outcome>>

OneEntryPerSessionFile ==
    /\ Len(cli.entries) = Cardinality(Stored(sessions))
    /\ {cli.entries[k].session_id : k \in DOMAIN cli.entries} = Stored(sessions)

\* the listing is in descending order of session identifier, and every entry
\* counts the Change Records of its session file
NewestFirstWithCounts ==
    /\ \A k \in 1..(Len(cli.entries) - 1) :
        cli.entries[k].session_id > cli.entries[k + 1].session_id
    /\ \A k \in DOMAIN cli.entries :
        /\ cli.entries[k].session_id \in Stored(sessions)
        /\ cli.entries[k].changes_count =
               Len(sessions[cli.entries[k].session_id].records)

\* C30: list_sessions returns one entry per session file stored in the backup
\* directory, newest first, each with the identifier of the session and the
\* number of its Change Records
C30_ListHasEverySessionNewestFirst ==
    lastOp = "list" => OneEntryPerSessionFile /\ NewestFirstWithCounts


\* every finding that process_remediation hands to a handler has been handled
EveryEligibleAttempted ==
    ~config.dry_run /\ config.enabled =>
        \A i \in DOMAIN results :
            results[i].severity # OK /\ Remediable(results[i]) =>
                \E k \in DOMAIN handled : handled[k].ix = i

\* C31: run to completion: every scan eventually ends with the exit status of
\* main, having run every registered check and attempted every eligible
\* remediation, whatever raises or fails on the way
C31_ScanRunsToCompletion ==
    <>(/\ scan_pc = "exit" /\ exit_status # Absent
       /\ Len(ran) = NumChecks
       /\ EveryEligibleAttempted)


\* the step is a journal command of main: --list-sessions or --rollback
JournalCommand == lastOp' \in {"list", "rollback"}

\* C32: the journal commands read the store and every stored session can be
\* rolled back: a --list-sessions or --rollback step leaves every session
\* file and every backup artifact as it was, and a --rollback of a session
\* whose file exists when the command is invoked does not end in "not found"
C32_JournalCommandsReadOnly ==
    /\ [][JournalCommand => sessions' = sessions /\ artifacts' = artifacts]_vars
    /\ [][lastOp' = "rollback" =>
            \A sid \in Stored(sessions) :
                rb'.target = <<sid>> => rb'.error # "not found"]_vars


\* the journal of the run holds, since the handler began, a file-content
\* Change Record of the configuration file whose backup is the text text
Snapshotted(text) ==
    \E i \in (journal_mark + 1)..Len(changes) :
        /\ changes[i].type = "file" /\ changes[i].path = CONFIG_PATH
        /\ changes[i].backup_file \in DOMAIN artifacts
        /\ artifacts[changes[i].backup_file].content = text

\* validation passed and the first _restart_ssh succeeded
ValidatedAndRestarted ==
    /\ pc = "done" /\ handler = "fix_ssh_config"
    /\ validated # <<>>
    /\ Len(restarts) \in {1, 2} /\ restarts[Len(restarts)].rc = 0

ListingFailed ==
    /\ handler = "enable_ufw" /\ cmdLog # <<>>
    /\ cmdLog[1].cmd = "ufw status numbered" /\ cmdLog[1].rc # 0

\* record_ufw_change of _enable_ufw could not write the backup file
BackupNotWritten == handler = "enable_ufw" /\ outcome.kind = "raised"

\* the handler issued no allow command and no activation command
NothingAllowedNorActivated ==
    /\ \A i \in DOMAIN cmdLog : cmdLog[i].cmd \notin {"ufw allow", "ufw --force enable"}
    /\ ufwActive = active_before

\* C34: in firewall activation the backup is a precondition for the rest:
\* when the rule listing cannot be obtained (the listing command fails or
\* times out) or cannot be recorded (the backup file cannot be written), no
\* allow-rule is added and the filter is not activated
C34_BackupIsPrecondition ==
    ListingFailed \/ BackupNotWritten => NothingAllowedNorActivated


\* the commands of the command records appended since the handler began
CommandsRecorded ==
    LET recs == SelectSeq(SubSeq(changes, journal_mark + 1, Len(changes)),
                          LAMBDA r : r.type = "command")
    IN [i \in DOMAIN recs |-> recs[i].command]

\* the allow commands of the handler that succeeded, as record_command names them
AllowsSucceeded ==
    LET ok == SelectSeq(cmdLog, LAMBDA c : c.cmd = "ufw allow" /\ c.rc = 0)
    IN [i \in DOMAIN ok |-> "ufw allow " \o ToString(ok[i].port)]

\* the handler is _add_missing_rules past its test of the payload
AddingRules == handler = "add_missing_rules" /\ pc \in {"add_record", "add_ports", "done"}

\* C35: adding missing allow-rules to an active filter records the prior
\* listing (the state and the rules of the filter) before the first allow
\* command, never issues the activation
\* command, attempts every requested port even after one fails (each pass of
\* the loop issues the allow command of the next port and the Outcome is set
\* only when no port is left), journals a command record for exactly the
\* ports whose allow command succeeded, and returns a success iff every allow
\* command succeeded
C35_AddRulesAttemptsEveryPort ==
    /\ [][handler = "add_missing_rules" /\ pc = "add_ports" =>
            IF ports # <<>>
            THEN /\ ports' = Tail(ports) /\ pc' = "add_ports"
                 /\ Len(cmdLog') = Len(cmdLog) + 1
                 /\ cmdLog'[Len(cmdLog')].cmd = "ufw allow"
                 /\ cmdLog'[Len(cmdLog')].port = Head(ports)
            ELSE pc' = "done" /\ outcome'.kind = "returned"]_vars
    /\ [][handler = "add_missing_rules" /\ pc = "add_record" /\ pc' = "add_ports" =>
            /\ UfwBackupName(session_id) \in DOMAIN artifacts'
            /\ artifacts'[UfwBackupName(session_id)].content =
                   [active |-> ufwActive, rules |-> ufwRules]]_vars
    /\ [](AddingRules =>
            /\ \A i \in DOMAIN cmdLog : cmdLog[i].cmd # "ufw --force enable"
            /\ ufwActive = active_before
            /\ (\E i \in DOMAIN cmdLog : cmdLog[i].cmd = "ufw allow") =>
                  /\ Len(changes) > journal_mark
                  /\ changes[journal_mark + 1].type = "ufw"
                  /\ changes[journal_mark + 1].action = "add_missing_rules"
            /\ CommandsRecorded = AllowsSucceeded
            /\ (pc = "done" /\ outcome.kind = "returned") =>
                  (outcome.success <=>
                      \A i \in DOMAIN cmdLog :
                          cmdLog[i].cmd = "ufw allow" => cmdLog[i].rc = 0))


\* a firewall or permission handler has returned an Outcome
HandlerReturned ==
    /\ pc = "done" /\ outcome.kind = "returned"
    /\ handler \in {"enable_ufw", "add_missing_rules", "fix_env_permissions"}

\* the session file of sid holds the Change Records this execution appended
SessionHoldsRecords(sid) ==
    /\ sid \in Stored(sessions) /\ sessions[sid].state = "ok"
    /\ Len(changes) > journal_mark
    /\ Len(FileRecords(sessions[sid])) = Len(changes)
    /\ \A i \in (journal_mark + 1)..Len(changes) :
        FileRecords(sessions[sid])[i] = changes[i]

\* C36: a success Outcome of a handler that performed a mutation carries the
\* session identifier of the run, which names a session whose journal holds
\* the Change Records of the execution; a failure Outcome carries an error
\* and no session identifier
C36_OutcomeNamesTheSession ==
    HandlerReturned =>
        IF outcome.success
        THEN mutLog # {} =>
                /\ outcome.rollback_id = <<session_id>>
                /\ SessionHoldsRecords(session_id)
        ELSE outcome.error # None /\ outcome.rollback_id = Absent


\* the positions of the findings whose fix identifier is fix_ssh_config
SshFindings == {i \in DOMAIN results : results[i].fix_action = "fix_ssh_config"}

\* the dispatcher is past finding i
Dispatched(i) ==
    \/ scan_pc \in {"remediate", "execute"} /\ i < rem_ix
    \/ scan_pc \in {"summary", "exit"}

\* C37: a finding with fix identifier fix_ssh_config is never auto-remediated
\* by the dispatcher, whatever the allow-list holds: no handler is invoked for
\* it, it is an alert once the dispatcher is past it, and the scan leaves the
\* daemon configuration as it was
C37_SshFindingIsNeverRemediated ==
    /\ \A i \in SshFindings :
        /\ i \notin running
        /\ \A k \in DOMAIN handled : handled[k].ix # i
        /\ \A k \in DOMAIN auto_fixed : auto_fixed[k][1] # results[i]
        /\ Dispatched(i) => \E k \in DOMAIN alerts : alerts[k] = results[i]
    /\ handler # "fix_ssh_config"
    /\ fs[CONFIG_PATH] = File(TRUE, 420, DefaultConfig)

\* a scan whose allow-list names fix_ssh_config has ended with such a finding
\* among its alerts, after a handler ran for another finding
C37_Witness ==
    /\ scan_pc = "exit" /\ "fix_ssh_config" \in config.auto_fix
    /\ SshFindings # {}
    /\ handled # <<>>
    /\ \A i \in SshFindings : \E k \in DOMAIN alerts : alerts[k] = results[i]


\* the backup artifacts that Change Records of the running session refer to
Referenced ==
    {changes[i].backup_file : i \in {j \in DOMAIN changes : changes[j].backup_file # Absent}}
        \cap DOMAIN artifacts

\* C38: backup artifact integrity: while the session goes on, a step that
\* appends a Change Record leaves every backup artifact that an earlier
\* record of the session refers to as it was
C38_ArtifactsAreNeverOverwritten ==
    [][session_id' = session_id /\ Len(changes') > Len(changes) =>
        \A name \in Referenced :
            name \in DOMAIN artifacts' /\ artifacts'[name] = artifacts[name]]_vars


\* _fix_env_permissions has ended
PermissionFixEnded == pc = "done" /\ handler = "fix_env_permissions"

\* the files the handler changed the mode of
FilesChanged == {m.subject : m \in {x \in mutLog : x.kind = "chmod"}}

\* C39: the permission fix returns a failure iff some file produced an error
\* and no file was changed; with a file changed it returns a success even if
\* other files failed, and the dispatcher records a finding whose handler
\* returned a success as auto-fixed and not as an alert; with an empty list of
\* files it returns a success and leaves the journal untouched
C39_PermissionFixOutcome ==
    /\ [](PermissionFixEnded =>
            /\ outcome.kind = "returned"
            /\ ~outcome.success <=> (errors # <<>> /\ FilesChanged = {})
            /\ FilesChanged # {} => outcome.success /\ outcome.rollback_id = <<session_id>>
            /\ (errors = <<>> /\ FilesChanged = {}) =>
                  /\ outcome.success /\ outcome.rollback_id = Absent
                  /\ Len(changes) = journal_mark)
    /\ [][pc = "idle" /\ pc' = "done" /\ handler' = "fix_env_permissions" =>
            UNCHANGED <<journalVars, sysVars>>]_vars
    /\ [](\A k \in DOMAIN handled :
            (results[handled[k].ix].fix_action = "fix_env_permissions"
             /\ ~handled[k].end.raised /\ handled[k].end.success) =>
                /\ \E j \in DOMAIN auto_fixed : auto_fixed[j][1] = results[handled[k].ix]
                /\ \A j \in DOMAIN alerts : alerts[j] # results[handled[k].ix])

\* two files were to be fixed: one was changed, the other produced an error,
\* and the Outcome is a success
C39_Witness ==
    /\ PermissionFixEnded
    /\ errors # <<>> /\ FilesChanged # {}
    /\ outcome.success


\* the SSH handler has applied _fix_setting for every required setting
SettingsFixed == handler = "fix_ssh_config" /\ new_content # <<>>

\* C40: the configuration rewrite is idempotent: the per-setting rewrite
\* applied to its own output changes nothing and reports no setting as changed
C40_RewriteIsIdempotent ==
    SettingsFixed =>
        FixSettings(new_content, <<>>, 1) = [content |-> new_content, fixed_settings |-> <<>>]

====
